---- MODULE Spec2Model ----
(***************************************************************************)
(* Impact Trajectory & Probability Engine of meteor-madness-simulator.     *)
(*                                                                         *)
(* Part I  : GPUAcceleratedSimulator.monte_carlo_impact_map                *)
(*           (backend/app/physics/gpu_accelerated.py) together with        *)
(*           calculate_impact_scenario (orbital_mechanics.py).             *)
(* Part II : OrbitalMechanics.calculate_atmospheric_entry                  *)
(*           (backend/app/physics/orbital_mechanics.py), specification     *)
(*           EntrySpec.                                                    *)
(* Part III: OrbitalMechanics.keplerian_to_cartesian and                   *)
(*           find_earth_intercept, specification OrbitSpec.                *)
(* Part IV : EnhancedPhysicsEngine.compute_impact_effects and              *)
(*           compute_batch_impacts (backend/app/physics/impact_physics.py),*)
(*           specification ImpactSpec.                                     *)
(* Part V  : OrbitalMechanics.generate_trajectory_visualization,           *)
(*           specification VisualSpec.                                     *)
(* Part VI : calculate_impact_scenario called on its own, specification    *)
(*           ScenarioSpec.                                                 *)
(* Part VII: OrbitalMechanics._solve_keplers_equation called on its own,   *)
(*           specification KeplerSpec.                                     *)
(*                                                                         *)
(* Numbers.  Python floats are modelled in fixed point.  Orbital elements, *)
(* latitudes, longitudes and bin sizes are integers in units of 1e-5       *)
(* (ElemUnit per 1.0 AU / 1.0 / 1 degree).  Covariance entries are         *)
(* integers in units of the 1e-10 jitter, so that a standard deviation     *)
(* (the square root of a variance) is again in units of 1e-5.  The one     *)
(* place where the rounding of a float operation decides a result, the     *)
(* remainder x % m of a negative x, is modelled with a significand of      *)
(* MantissaBits bits (RoundFloat).                                         *)
(***************************************************************************)
EXTENDS Integers, Sequences, FiniteSets, TLC

VARIABLES
    \* ---- the request (arguments of monte_carlo_impact_map) ----
    covariance,         \* [labels, matrix]
    nominal_elements,   \* the six nominal Keplerian elements
    asteroid_params,    \* [diameter, velocity, density, angle]
    samples,            \* requested sample count
    bin_size_deg,       \* bin size (units of 1e-5 degree)
    seed,               \* NoSeed or an integer seed
    \* ---- locals of monte_carlo_impact_map ----
    mc_pc,              \* position in the function body
    matrix_np,          \* the matrix after np.array / reshape
    cov_submatrix,      \* the 6x6 matrix handed to cholesky / the sampler
    rng,                \* state of the generator (a small LCG)
    cholesky_calls,     \* number of np.linalg.cholesky calls so far
    jitters,            \* number of times the jitter was added
    samples_matrix,     \* the drawn sample vectors
    sample_idx,         \* loop index into samples_matrix (1-based)
    sampled_elements,   \* element sets handed to calculate_impact_scenario
    scenarios,          \* impact_location of each scenario computed so far
    bin_counts,         \* dict (lat_bin, lon_bin) -> count, in insertion order
    sample_locations,   \* list of (lat, lon) of the valid samples
    result,             \* the returned dict, or NoResult
    error,              \* the exception raised, or "none"
    \* ---- environment ----
    intercepts,         \* what find_earth_intercept returns per element set
    call_no,            \* 1 for the first call, 2 for its repetition
    first_result,       \* result of the first call
    first_scenarios,    \* scenarios of the first call
    \* ---- OrbitalMechanics.calculate_atmospheric_entry ----
    ae_args,            \* the arguments of the call
    ae,                 \* its locals: pc, h, v, x, time, max_time, broke
    trajectory,         \* the list of recorded points
    ae_result,          \* the returned dict, or NoResult
    \* ---- OrbitalMechanics.find_earth_intercept ----
    orbital_elements,   \* the argument of the call
    fi,                 \* its locals: pc, step, closest, closest_diff
    fi_result,          \* the returned dict or None, or NoResult
    \* ---- EnhancedPhysicsEngine.compute_batch_impacts ----
    asteroid_params_list,   \* the argument of the call
    device_available,   \* self.device_available
    gpu_failing,        \* the GPU computation raises an exception
    ip_pc,              \* position in compute_batch_impacts and its callees
    batch_results,      \* the results list
    batch_error,        \* the exception raised, or "none"
    \* ---- OrbitalMechanics.generate_trajectory_visualization ----
    gv_args,            \* the arguments of the call
    gv,                 \* its locals: pc, i, total_points, collision_*
    trajectory_points,  \* the list of points
    \* ---- calculate_impact_scenario ----
    sc_args,            \* the arguments and what the callees return
    sc_pc,              \* "idle", "call" or "done"
    sc_result,          \* the returned dict, or NoResult
    \* ---- OrbitalMechanics._solve_keplers_equation ----
    ks                  \* its arguments, locals and outcome

mc_vars == <<covariance, nominal_elements, asteroid_params, samples,
             bin_size_deg, seed, mc_pc, matrix_np, cov_submatrix, rng,
             cholesky_calls, jitters, samples_matrix, sample_idx,
             sampled_elements, scenarios, bin_counts, sample_locations,
             result, error, intercepts, call_no, first_result,
             first_scenarios>>

ae_vars == <<ae_args, ae, trajectory, ae_result>>

om_vars == <<orbital_elements, fi, fi_result>>

ip_vars == <<asteroid_params_list, device_available, gpu_failing, ip_pc,
             batch_results, batch_error>>

gv_vars == <<gv_args, gv, trajectory_points>>

sc_vars == <<sc_args, sc_pc, sc_result>>

ks_vars == <<ks>>

not_mc_vars == <<ae_vars, om_vars, ip_vars, gv_vars, sc_vars, ks_vars>>
not_ae_vars == <<mc_vars, om_vars, ip_vars, gv_vars, sc_vars, ks_vars>>
not_om_vars == <<mc_vars, ae_vars, ip_vars, gv_vars, sc_vars, ks_vars>>
not_ip_vars == <<mc_vars, ae_vars, om_vars, gv_vars, sc_vars, ks_vars>>
not_gv_vars == <<mc_vars, ae_vars, om_vars, ip_vars, sc_vars, ks_vars>>
not_sc_vars == <<mc_vars, ae_vars, om_vars, ip_vars, gv_vars, ks_vars>>
not_ks_vars == <<mc_vars, ae_vars, om_vars, ip_vars, gv_vars, sc_vars>>

vars == <<mc_vars, ae_vars, om_vars, ip_vars, gv_vars, sc_vars, ks_vars>>

-----------------------------------------------------------------------------
(* Units and bounds *)

ElemUnit == 10^5            \* model units per 1.0 (AU, 1, degree)
Deg(d) == d * ElemUnit
NaN == 2^30                 \* float('nan'): a value outside every range
NoSeed == -1                \* seed=None
MaxSamples == 2             \* largest requested sample count
MaxSeed == 1                \* seeds are 0..MaxSeed

-----------------------------------------------------------------------------
(* Floats: rounding to MantissaBits significant bits, ties to even *)

MantissaBits == 24

RECURSIVE UlpOf(_, _)
UlpOf(x, u) == IF x < (2^MantissaBits) * u THEN u ELSE UlpOf(x, 2 * u)

RoundFloat(x) ==
    LET ax  == IF x < 0 THEN -x ELSE x
        u   == UlpOf(ax, 1)
        lo  == (ax \div u) * u
        rem == ax - lo
        up  == IF 2 * rem > u THEN TRUE
               ELSE IF 2 * rem < u THEN FALSE
               ELSE ((lo \div u) % 2) = 1
        r   == IF up THEN lo + u ELSE lo
    IN  IF x < 0 THEN -r ELSE r

\* C fmod: the remainder has the sign of x and is exact.
Fmod(x, m) == IF x >= 0 THEN x % m ELSE -((-x) % m)

\* Python / numpy float remainder x % m for m > 0: fmod, then "mod += m" when
\* the signs differ; that addition is a rounded float addition.
FloatMod(x, m) ==
    LET r == Fmod(x, m)
    IN  IF r # 0 /\ r < 0 THEN RoundFloat(r + m) ELSE r

-----------------------------------------------------------------------------
(* Inputs of the Monte Carlo request *)

RequiredLabels == <<"a", "e", "i", "om", "w", "ma">>

Diag(d) == [i \in 1..Len(d) |-> [j \in 1..Len(d) |-> IF i = j THEN d[i] ELSE 0]]
Flatten(M) == [k \in 1..(Len(M) * Len(M[1])) |->
                 M[((k - 1) \div Len(M[1])) + 1][((k - 1) % Len(M[1])) + 1]]
Widen(M) == [i \in 1..Len(M) |-> Append(M[i], 0)]       \* one more column

Matrix2D(M) == [ndim |-> 2, flat |-> <<>>, rows |-> M]
MatrixFlat(f) == [ndim |-> 1, flat |-> f, rows |-> <<>>]
MatrixMissing == [ndim |-> 0, flat |-> <<>>, rows |-> <<>>]   \* None or []
Matrix3D == [ndim |-> 3, flat |-> <<>>, rows |-> <<>>]

\* variances of a, e, i, om, w, ma in units of 1e-10
GoodDiag == Diag(<<4, 1, 1, 4, 1, 1>>)
SingularDiag == Diag(<<1, 1, 0, 0, 0, 0>>)       \* positive semi-definite
IndefiniteDiag == Diag(<<1, 1, -1, 1, 1, 1>>)    \* not PSD, also with jitter
\* a and e fully correlated plus off-diagonal excess: indefinite with jitter
Coupled == [i \in 1..6 |-> [j \in 1..6 |->
              IF i = j THEN 1 ELSE IF {i, j} = {1, 2} THEN 2 ELSE 0]]

Covariances ==
    { [labels |-> RequiredLabels, matrix |-> Matrix2D(GoodDiag)],
      [labels |-> RequiredLabels, matrix |-> MatrixFlat(Flatten(SingularDiag))],
      [labels |-> RequiredLabels, matrix |-> Matrix2D(IndefiniteDiag)],
      [labels |-> RequiredLabels, matrix |-> Matrix2D(Coupled)],
      [labels |-> RequiredLabels, matrix |-> MatrixMissing],
      [labels |-> RequiredLabels, matrix |-> Matrix3D],
      \* label "a" missing
      [labels |-> <<"e", "i", "om", "w", "ma">>,
       matrix |-> Matrix2D(Diag(<<1, 1, 1, 1, 1>>))],
      \* seven labelled elements, the required ones not first
      [labels |-> <<"q", "ma", "w", "om", "i", "e", "a">>,
       matrix |-> Matrix2D(Diag(<<0, 1, 1, 4, 1, 1, 4>>))],
      \* not square: 6 rows of 7 columns
      [labels |-> RequiredLabels, matrix |-> Matrix2D(Widen(GoodDiag))],
      \* flat, length 42 is not a perfect square
      [labels |-> RequiredLabels, matrix |-> MatrixFlat(Flatten(Widen(GoodDiag)))],
      \* six labels over a 5x5 matrix
      [labels |-> RequiredLabels, matrix |-> Matrix2D(Diag(<<1, 1, 1, 1, 1>>))] }

Elements(a, e, i, om, w, ma) ==
    [semi_major_axis_au |-> a, eccentricity |-> e, inclination_deg |-> i,
     longitude_ascending_node_deg |-> om, argument_periapsis_deg |-> w,
     mean_anomaly_deg |-> ma]

NominalElements ==
    { Elements(ElemUnit, 20000, Deg(10), 0, 0, 0),
      Elements(10001, 99899, Deg(180) - 1, Deg(360) - 1, Deg(370), -Deg(10)) }

AsteroidParams ==
    { [diameter |-> 50, velocity |-> 20, density |-> 2500, angle |-> 45] }

\* 0.5 degree, the smallest allowed, and 25 degrees, which divides neither
\* 180 nor 360
BinSizes == { Deg(5) \div 10, Deg(25) }

Seeds == {NoSeed} \cup (0..MaxSeed)

-----------------------------------------------------------------------------
(* numpy pieces used by monte_carlo_impact_map *)

ISqrt(n) == CHOOSE k \in 0..n : k * k <= n /\ (k + 1) * (k + 1) > n

\* np.array(matrix_raw, dtype=float) followed by the reshape of a flat matrix.
\* The result is [ok, rows]; ok = FALSE stands for the ValueError numpy raises.
Reshape(flat) ==
    LET size == ISqrt(Len(flat))
    IN  IF size * size # Len(flat)
        THEN [ok |-> FALSE, rows |-> <<>>]
        ELSE [ok |-> TRUE,
              rows |-> [i \in 1..size |-> [j \in 1..size |->
                          flat[(i - 1) * size + j]]]]

\* {label: idx for idx, label in enumerate(labels)}: the last index wins.
HasLabel(labels, l) == \E i \in 1..Len(labels) : labels[i] = l
LabelIndex(labels, l) ==
    CHOOSE i \in 1..Len(labels) :
        labels[i] = l /\ \A j \in (i + 1)..Len(labels) : labels[j] # l

\* matrix_np[np.ix_(indices, indices)]; IndexError when an index is outside.
IndicesInside(M, indices) ==
    \A k \in 1..Len(indices) :
        indices[k] <= Len(M) /\ indices[k] <= Len(M[1])
SubMatrix(M, indices) ==
    [i \in 1..Len(indices) |-> [j \in 1..Len(indices) |->
        M[indices[i]][indices[j]]]]

\* np.linalg.cholesky reads the lower triangle and succeeds exactly when that
\* symmetric matrix is positive definite: all leading principal minors are
\* positive.  The minors are the pivots of fraction-free elimination.
LowerSym(M) == [i \in 1..Len(M) |-> [j \in 1..Len(M) |->
                  IF j <= i THEN M[i][j] ELSE M[j][i]]]

\* the same matrix, every entry evaluated
Evaluated(M) == [i \in 1..Len(M) |-> M[i] \o <<>>] \o <<>>

\* M is what is left of the matrix after the rows and columns before its
\* first were eliminated; prev is the pivot before M[1][1].
RECURSIVE PivotsPositive(_, _)
PivotsPositive(M, prev) ==
    IF Len(M) = 0 THEN TRUE
    ELSE IF M[1][1] <= 0 THEN FALSE
    ELSE \A reduced \in
               { Evaluated([i \in 1..(Len(M) - 1) |-> [j \in 1..(Len(M) - 1) |->
                   (M[1][1] * M[i + 1][j + 1] - M[i + 1][1] * M[1][j + 1])
                       \div prev]]) } :
             PivotsPositive(reduced, M[1][1])

CholeskySucceeds(M) ==
    \A lower \in {Evaluated(LowerSym(M))} : PivotsPositive(lower, 1)

\* cov_submatrix + np.eye(n) * 1e-10 (one unit of the covariance scale)
AddJitter(M) == [i \in 1..Len(M) |-> [j \in 1..Len(M) |->
                   IF i = j THEN M[i][j] + 1 ELSE M[i][j]]]

\* np.random.default_rng(seed): a generator whose whole output is a function
\* of its state; the state is a function of the seed, or fresh entropy.
RngStates == 0..3
SeedState(s) == s % 4
RngNext(s) == (5 * s + 3) % 4

\* the six standard-normal variates the generator yields in state s
StdNormal(s) ==
    << <<0, 0, 0, 0, 0, 0>>,
       <<-2, 2, -1, -1, -2, 1>>,
       <<1, 1, 1, -2, -1, -1>>,
       <<2, -2, 2, 1, 1, -2>> >>[s + 1]

RECURSIVE RngAfter(_, _)
RngAfter(s, n) == IF n = 0 THEN s ELSE RngAfter(RngNext(s), n - 1)

\* rng.multivariate_normal(mean, cov, size=n): row k is the mean plus the
\* k-th variate vector scaled by the standard deviations (exact for the
\* diagonal covariances; correlations do not shift the values modelled).
MultivariateNormal(s, mean, cov, n) ==
    [k \in 1..n |-> [j \in 1..6 |->
        mean[j] + StdNormal(RngAfter(s, k - 1))[j] * ISqrt(cov[j][j])]]

MeanVector(ne) ==
    << ne.semi_major_axis_au, ne.eccentricity, ne.inclination_deg,
       ne.longitude_ascending_node_deg, ne.argument_periapsis_deg,
       ne.mean_anomaly_deg >>

-----------------------------------------------------------------------------
(* calculate_impact_scenario and its callees (orbital_mechanics.py) *)

None == 2^30 + 1            \* Python None where a number may stand

\* What find_earth_intercept returns: None (found = FALSE) or the intercept
\* dict; latitude = degrees(asin(.)) and longitude = degrees(atan2(.)) are
\* within [-90, 90] and [-180, 180], or nan.
NoIntercept ==
    [found |-> FALSE, entry_velocity_km_s |-> 0, entry_angle_deg |-> 0,
     latitude |-> None, longitude |-> None]
Intercept(lat, lon) ==
    [found |-> TRUE, entry_velocity_km_s |-> 25, entry_angle_deg |-> 30,
     latitude |-> lat, longitude |-> lon]
InterceptResults ==
    { NoIntercept,
      Intercept(0, 0),
      Intercept(Deg(90), Deg(180)),
      Intercept(NaN, Deg(10)) }

\* random.uniform(-60, 60), random.uniform(-180, 180): unseeded
RandomLocations ==
    { [latitude |-> -Deg(60), longitude |-> Deg(180)],
      [latitude |-> Deg(20), longitude |-> -Deg(75)] }

NoTarget == [given |-> FALSE, latitude |-> None, longitude |-> None]

\* OrbitalMechanics.calculate_impact_location with both coordinates given
\* (calculate_impact_scenario never calls it with a None coordinate).
calculate_impact_location_swapped(target_lat, target_lon) ==
    [latitude |-> target_lon, longitude |-> target_lat]
calculate_impact_location(target_lat, target_lon) ==
    [latitude |-> target_lat, longitude |-> target_lon]

\* calculate_impact_scenario(asteroid_params, orbital_elements,
\* target_location).  has_elements: orbital_elements is a non-empty dict;
\* found_intercept: what find_earth_intercept returns for it; random_location:
\* the values the two random.uniform calls would return.
calculate_impact_scenario(params, has_elements, found_intercept, target_location, random_location) ==
    LET intercept == IF has_elements THEN found_intercept ELSE NoIntercept
        effective_velocity ==
            IF intercept.found THEN intercept.entry_velocity_km_s
            ELSE params.velocity
        effective_angle ==
            IF intercept.found THEN intercept.entry_angle_deg
            ELSE params.angle
        lat0 == IF intercept.found THEN intercept.latitude ELSE None
        lon0 == IF intercept.found THEN intercept.longitude ELSE None
        useTarget == target_location.given /\ lat0 = None
        lat1 == IF useTarget THEN target_location.latitude ELSE lat0
        lon1 == IF useTarget THEN target_location.longitude ELSE lon0
        useRandom == lat1 = None \/ lon1 = None
        impact_lat == IF useRandom THEN random_location.latitude ELSE lat1
        impact_lon == IF useRandom THEN random_location.longitude ELSE lon1
    IN  [impact_location |-> calculate_impact_location(impact_lat, impact_lon),
         atmospheric_entry |->
             [called_with |->
                 [initial_velocity_km_s |-> effective_velocity,
                  entry_angle_deg |-> effective_angle,
                  asteroid_diameter_m |-> params.diameter,
                  asteroid_density_kg_m3 |-> params.density,
                  entry_altitude_km |-> 100]],
         orbital_intercept |-> intercept,
         effective_parameters |->
             [entry_velocity_km_s |-> effective_velocity,
              entry_angle_deg |-> effective_angle]]

-----------------------------------------------------------------------------
(* The body of the sample loop of monte_carlo_impact_map *)

Max(a, b) == IF a >= b THEN a ELSE b
Min(a, b) == IF a <= b THEN a ELSE b

EccentricityCap == 99900        \* 0.999
SemiMajorAxisFloor == 10000     \* 0.1 AU

\* mutant: the eccentricity is only floored at 0, not capped
SampledElementsNoCap(sample) ==
    Elements(Max(sample[1], SemiMajorAxisFloor),
             Max(sample[2], 0),
             FloatMod(sample[3], Deg(180)),
             FloatMod(sample[4], Deg(360)),
             FloatMod(sample[5], Deg(360)),
             FloatMod(sample[6], Deg(360)))

\* the sampled_elements dict built from one row of samples_matrix
SampledElements(sample) ==
    Elements(Max(sample[1], SemiMajorAxisFloor),
             Min(Max(sample[2], 0), EccentricityCap),
             FloatMod(sample[3], Deg(180)),
             FloatMod(sample[4], Deg(360)),
             FloatMod(sample[5], Deg(360)),
             FloatMod(sample[6], Deg(360)))

RECURSIVE SumSeq(_)
SumSeq(q) == IF q = <<>> THEN 0 ELSE Head(q) + SumSeq(Tail(q))

HasKey(bc, key) == \E k \in 1..Len(bc) : bc[k].key = key

\* mutant: the bin is set to the running number of binned samples
IncrementRunningTotal(bc, key) ==
    LET n == SumSeq([k \in 1..Len(bc) |-> bc[k].count]) + 1
    IN  IF HasKey(bc, key)
        THEN [k \in 1..Len(bc) |->
                IF bc[k].key = key THEN [bc[k] EXCEPT !.count = n] ELSE bc[k]]
        ELSE Append(bc, [key |-> key, count |-> n])

\* bin_counts[key] = bin_counts.get(key, 0) + 1 on an insertion-ordered dict
Increment(bc, key) ==
    IF HasKey(bc, key)
    THEN [k \in 1..Len(bc) |->
            IF bc[k].key = key THEN [bc[k] EXCEPT !.count = @ + 1] ELSE bc[k]]
    ELSE Append(bc, [key |-> key, count |-> 1])

BinKey(lat, lon, bin) == << (lat + Deg(90)) \div bin, (lon + Deg(180)) \div bin >>

Binned(acc, sc, bin) ==
    [bin_counts |->
         Increment(acc.bin_counts,
                   BinKey(sc.impact_location.latitude,
                          sc.impact_location.longitude, bin)),
     sample_locations |->
         Append(acc.sample_locations,
                << sc.impact_location.latitude,
                   sc.impact_location.longitude >>)]

\* mutant: the location is appended before the nan test
ProcessSampleAppendFirst(acc, sc, bin) ==
    IF ~sc.orbital_intercept.found THEN acc
    ELSE IF sc.impact_location.latitude = NaN
            \/ sc.impact_location.longitude = NaN
    THEN [acc EXCEPT !.sample_locations =
              Append(@, << sc.impact_location.latitude,
                           sc.impact_location.longitude >>)]
    ELSE Binned(acc, sc, bin)

\* mutant: a scenario without intercept is binned at its fallback location
ProcessSampleKeepFallback(acc, sc, bin) ==
    IF sc.impact_location.latitude = NaN
       \/ sc.impact_location.longitude = NaN THEN acc
    ELSE Binned(acc, sc, bin)

\* mutant: no nan test
ProcessSampleNoNanTest(acc, sc, bin) ==
    IF ~sc.orbital_intercept.found THEN acc
    ELSE Binned(acc, sc, bin)

\* One pass of the loop body after the scenario was computed: acc holds
\* bin_counts and sample_locations.  (The impact_location dict is never
\* empty, so its "if not impact_location" test never fires.)
ProcessSample(acc, sc, bin) ==
    IF ~sc.orbital_intercept.found THEN acc                  \* continue
    ELSE IF sc.impact_location.latitude = NaN
            \/ sc.impact_location.longitude = NaN THEN acc   \* continue
    ELSE Binned(acc, sc, bin)

\* the heatmap list and the result dict (timing and method left out)
Heatmap(bc, valid_samples, bin) ==
    [k \in 1..Len(bc) |->
        [lat_center_deg |-> -Deg(90) + bc[k].key[1] * bin + bin \div 2,
         lon_center_deg |-> -Deg(180) + bc[k].key[2] * bin + bin \div 2,
         count |-> bc[k].count,
         probability |-> IF valid_samples # 0
                         THEN (bc[k].count * ElemUnit) \div valid_samples
                         ELSE 0]]

NoResult == [returned |-> FALSE]

BuildResult(n, bc, locs, bin) ==
    LET valid_samples == Len(locs)
    IN  [returned |-> TRUE,
         total_samples |-> n,
         valid_samples |-> valid_samples,
         invalid_samples |-> n - valid_samples,
         bin_size_deg |-> bin,
         heatmap |-> Heatmap(bc, valid_samples, bin),
         has_mean |-> locs # <<>>,
         mean_latitude |->
             IF locs # <<>>
             THEN SumSeq([k \in 1..Len(locs) |-> locs[k][1]]) \div Len(locs)
             ELSE None,
         mean_longitude |->
             IF locs # <<>>
             THEN SumSeq([k \in 1..Len(locs) |-> locs[k][2]]) \div Len(locs)
             ELSE None]

-----------------------------------------------------------------------------
(* monte_carlo_impact_map as a state machine *)

Request == <<covariance, nominal_elements, asteroid_params, samples,
             bin_size_deg, seed>>

Indices == [k \in 1..6 |-> LabelIndex(covariance.labels, RequiredLabels[k])]

EnterCall ==
    /\ mc_pc' = "matrix"
    /\ matrix_np' = <<>>
    /\ cov_submatrix' = <<>>
    /\ rng' = 0
    /\ cholesky_calls' = 0
    /\ jitters' = 0
    /\ samples_matrix' = <<>>
    /\ sample_idx' = 0
    /\ sampled_elements' = <<>>
    /\ scenarios' = <<>>
    /\ bin_counts' = <<>>
    /\ sample_locations' = <<>>
    /\ result' = NoResult
    /\ error' = "none"

McInit ==
    /\ covariance \in Covariances
    /\ nominal_elements \in NominalElements
    /\ asteroid_params \in AsteroidParams
    /\ samples \in 0..MaxSamples
    /\ bin_size_deg \in BinSizes
    /\ seed \in Seeds
    /\ mc_pc = "matrix"
    /\ matrix_np = <<>>
    /\ cov_submatrix = <<>>
    /\ rng = 0
    /\ cholesky_calls = 0
    /\ jitters = 0
    /\ samples_matrix = <<>>
    /\ sample_idx = 0
    /\ sampled_elements = <<>>
    /\ scenarios = <<>>
    /\ bin_counts = <<>>
    /\ sample_locations = <<>>
    /\ result = NoResult
    /\ error = "none"
    /\ intercepts = {}
    /\ call_no = 1
    /\ first_result = NoResult
    /\ first_scenarios = <<>>

Raise(exc) ==
    /\ mc_pc' = "raised"
    /\ error' = exc

\* lines 294-306: the matrix data, np.array, reshape of a flat matrix
McMatrix ==
    /\ mc_pc = "matrix"
    /\ LET m == covariance.matrix
           shaped == IF m.ndim = 1 THEN Reshape(m.flat)
                     ELSE [ok |-> TRUE, rows |-> m.rows]
       IN  IF m.ndim = 0
           THEN Raise("ValueError: Covariance matrix data missing")
                /\ UNCHANGED matrix_np
           ELSE IF m.ndim = 1 /\ ~shaped.ok
           THEN Raise("ValueError: cannot reshape") /\ UNCHANGED matrix_np
           ELSE IF m.ndim # 1 /\ m.ndim # 2
           THEN Raise("ValueError: Unexpected covariance matrix shape")
                /\ UNCHANGED matrix_np
           ELSE /\ matrix_np' = shaped.rows
                /\ mc_pc' = "labels"
                /\ UNCHANGED error
    /\ UNCHANGED <<not_mc_vars, Request, cov_submatrix, rng, cholesky_calls, jitters,
                   samples_matrix, sample_idx, sampled_elements, scenarios,
                   bin_counts, sample_locations, result, intercepts, call_no,
                   first_result, first_scenarios>>

\* lines 308-313: the required labels and the submatrix they select
McLabels ==
    /\ mc_pc = "labels"
    /\ IF ~(\A k \in 1..6 : HasLabel(covariance.labels, RequiredLabels[k]))
       THEN Raise("ValueError: Covariance matrix missing required orbital element labels")
            /\ UNCHANGED cov_submatrix
       ELSE IF ~IndicesInside(matrix_np, Indices)
       THEN Raise("IndexError") /\ UNCHANGED cov_submatrix
       ELSE /\ cov_submatrix' = SubMatrix(matrix_np, Indices)
            /\ mc_pc' = "rng"
            /\ UNCHANGED error
    /\ UNCHANGED <<not_mc_vars, Request, matrix_np, rng, cholesky_calls, jitters,
                   samples_matrix, sample_idx, sampled_elements, scenarios,
                   bin_counts, sample_locations, result, intercepts, call_no,
                   first_result, first_scenarios>>

\* line 324: rng = np.random.default_rng(seed)
McRng ==
    /\ mc_pc = "rng"
    /\ \E s \in RngStates :
          /\ seed # NoSeed => s = SeedState(seed)
          /\ rng' = s
    /\ mc_pc' = "cholesky"
    /\ UNCHANGED <<not_mc_vars, Request, matrix_np, cov_submatrix, cholesky_calls, jitters,
                   samples_matrix, sample_idx, sampled_elements, scenarios,
                   bin_counts, sample_locations, result, error, intercepts,
                   call_no, first_result, first_scenarios>>

\* mutant: the jitter is added whether or not the factorization succeeds
McCholeskyAlwaysJitter ==
    /\ mc_pc = "cholesky"
    /\ cholesky_calls' = cholesky_calls + 1
    /\ cov_submatrix' = AddJitter(cov_submatrix)
    /\ jitters' = jitters + 1
    /\ mc_pc' = "draw"
    /\ UNCHANGED <<not_mc_vars, Request, matrix_np, rng, samples_matrix, sample_idx,
                   sampled_elements, scenarios, bin_counts, sample_locations,
                   result, error, intercepts, call_no, first_result,
                   first_scenarios>>

\* lines 327-329: the first factorization
McCholesky ==
    /\ mc_pc = "cholesky"
    /\ cholesky_calls' = cholesky_calls + 1
    /\ mc_pc' = IF CholeskySucceeds(cov_submatrix) THEN "draw" ELSE "jitter"
    /\ UNCHANGED <<not_mc_vars, Request, matrix_np, cov_submatrix, rng, jitters,
                   samples_matrix, sample_idx, sampled_elements, scenarios,
                   bin_counts, sample_locations, result, error, intercepts,
                   call_no, first_result, first_scenarios>>

\* mutant: the second factorization is tried and its failure ignored
McJitterIgnoreFailure ==
    /\ mc_pc = "jitter"
    /\ cov_submatrix' = AddJitter(cov_submatrix)
    /\ jitters' = jitters + 1
    /\ cholesky_calls' = cholesky_calls + 1
    /\ mc_pc' = "draw"
    /\ UNCHANGED <<not_mc_vars, Request, matrix_np, rng, samples_matrix, sample_idx,
                   sampled_elements, scenarios, bin_counts, sample_locations,
                   result, error, intercepts, call_no, first_result,
                   first_scenarios>>

\* lines 330-332: the except branch; its cholesky call is not guarded
McJitter ==
    /\ mc_pc = "jitter"
    /\ cov_submatrix' = AddJitter(cov_submatrix)
    /\ jitters' = jitters + 1
    /\ cholesky_calls' = cholesky_calls + 1
    /\ IF CholeskySucceeds(AddJitter(cov_submatrix))
       THEN mc_pc' = "draw" /\ UNCHANGED error
       ELSE Raise("LinAlgError")
    /\ UNCHANGED <<not_mc_vars, Request, matrix_np, rng, samples_matrix, sample_idx,
                   sampled_elements, scenarios, bin_counts, sample_locations,
                   result, intercepts, call_no, first_result, first_scenarios>>

\* lines 334-337: the draw of all samples, the empty dict and list
McDraw ==
    /\ mc_pc = "draw"
    /\ samples_matrix' = MultivariateNormal(rng, MeanVector(nominal_elements),
                                            cov_submatrix, samples)
    /\ rng' = RngAfter(rng, samples)
    /\ sample_idx' = 1
    /\ mc_pc' = "loop"
    /\ UNCHANGED <<not_mc_vars, Request, matrix_np, cov_submatrix, cholesky_calls, jitters,
                   sampled_elements, scenarios, bin_counts, sample_locations,
                   result, error, intercepts, call_no, first_result,
                   first_scenarios>>

\* lines 339-370: one iteration of the loop.  find_earth_intercept is a
\* function of the elements: its value for an element set is chosen when the
\* set is first seen and is the same ever after.
McSample ==
    /\ mc_pc = "loop"
    /\ sample_idx <= Len(samples_matrix)
    /\ LET se == SampledElements(samples_matrix[sample_idx])
       IN  \E found \in InterceptResults, rnd \in RandomLocations :
             /\ \A p \in intercepts : p[1] = se => p[2] = found
             /\ intercepts' = intercepts \cup {<<se, found>>}
             /\ sampled_elements' = Append(sampled_elements, se)
             /\ LET sc == calculate_impact_scenario(asteroid_params, TRUE,
                                                    found, NoTarget, rnd)
                    acc == ProcessSample(
                             [bin_counts |-> bin_counts,
                              sample_locations |-> sample_locations],
                             sc, bin_size_deg)
                IN  /\ scenarios' = Append(scenarios, sc.impact_location)
                    /\ bin_counts' = acc.bin_counts
                    /\ sample_locations' = acc.sample_locations
    /\ sample_idx' = sample_idx + 1
    /\ UNCHANGED <<not_mc_vars, Request, mc_pc, matrix_np, cov_submatrix, rng,
                   cholesky_calls, jitters, samples_matrix, result, error,
                   call_no, first_result, first_scenarios>>

\* lines 372-404: the heatmap and the result
McReturn ==
    /\ mc_pc = "loop"
    /\ sample_idx > Len(samples_matrix)
    /\ result' = BuildResult(samples, bin_counts, sample_locations, bin_size_deg)
    /\ mc_pc' = "done"
    /\ UNCHANGED <<not_mc_vars, Request, matrix_np, cov_submatrix, rng, cholesky_calls,
                   jitters, samples_matrix, sample_idx, sampled_elements,
                   scenarios, bin_counts, sample_locations, error, intercepts,
                   call_no, first_result, first_scenarios>>

\* the caller repeats a seeded call with the same arguments
McRepeat ==
    /\ mc_pc = "done"
    /\ call_no = 1
    /\ seed # NoSeed
    /\ call_no' = 2
    /\ first_result' = result
    /\ first_scenarios' = scenarios
    /\ EnterCall
    /\ UNCHANGED <<not_mc_vars, Request, intercepts>>

Next ==
    \/ McMatrix
    \/ McLabels
    \/ McRng
    \/ McCholesky
    \/ McJitter
    \/ McDraw
    \/ McSample
    \/ McReturn
    \/ McRepeat

\* no call of calculate_atmospheric_entry is in progress
AeIdle ==
    /\ ae_args = [initial_velocity_km_s |-> 0, entry_angle_deg |-> 0,
                  asteroid_diameter_m |-> 0, asteroid_density_kg_m3 |-> 0,
                  entry_altitude_km |-> 0, start_altitude_km |-> 0]
    /\ ae = [pc |-> "idle", h |-> 0, v |-> 0, x |-> 0, time |-> 0,
             time_err |-> 0, max_time |-> 0, broke |-> FALSE]
    /\ trajectory = <<>>
    /\ ae_result = NoResult

Infinity == 2^30 + 2        \* float('inf')
NoClosest == [step |-> None, position |-> <<>>, velocity |-> <<>>,
              distance |-> None]

\* no call of find_earth_intercept is in progress
OmIdle ==
    /\ orbital_elements = Elements(0, 0, 0, 0, 0, 0)
    /\ fi = [pc |-> "idle", step |-> 0, closest |-> NoClosest,
             closest_diff |-> Infinity]
    /\ fi_result = NoResult

\* no call of compute_batch_impacts is in progress
IpIdle ==
    /\ asteroid_params_list = <<>>
    /\ device_available = FALSE
    /\ gpu_failing = FALSE
    /\ ip_pc = "idle"
    /\ batch_results = <<>>
    /\ batch_error = "none"

\* no call of generate_trajectory_visualization is in progress
GvIdle ==
    /\ gv_args = [orbital_elements |-> Elements(0, 0, 0, 0, 0, 0),
                  num_points |-> 0, check_collision |-> FALSE,
                  full_orbit |-> FALSE]
    /\ gv = [pc |-> "idle", i |-> 0, total_points |-> 0,
             collision_detected |-> FALSE, collision_point |-> None]
    /\ trajectory_points = <<>>

\* no separate call of calculate_impact_scenario is in progress
ScIdle ==
    /\ sc_args = [asteroid_params |-> [diameter |-> 0, velocity |-> 0,
                                       density |-> 0, angle |-> 0],
                  has_elements |-> FALSE, found_intercept |-> NoIntercept,
                  target_location |-> NoTarget,
                  random_location |-> [latitude |-> 0, longitude |-> 0]]
    /\ sc_pc = "idle"
    /\ sc_result = NoResult

\* no separate call of _solve_keplers_equation is in progress
KsIdle ==
    ks = [pc |-> "idle", M |-> 0, e |-> 0, E |-> 0, iterations |-> 0,
          steps |-> <<>>, returned |-> None]

Init == McInit /\ AeIdle /\ OmIdle /\ IpIdle /\ GvIdle /\ ScIdle /\ KsIdle

Spec == Init /\ [][Next]_vars

-----------------------------------------------------------------------------
(* Properties of monte_carlo_impact_map *)

HeatmapCounts(r) == [k \in 1..Len(r.heatmap) |-> r.heatmap[k].count]

\* what find_earth_intercept returned for the k-th sample of this call
InterceptAt(k) ==
    (CHOOSE p \in intercepts : p[1] = sampled_elements[k])[2]
ScenarioAt(k) ==
    [impact_location |-> scenarios[k], orbital_intercept |-> InterceptAt(k)]
InvalidAt(k) ==
    \/ ~InterceptAt(k).found
    \/ scenarios[k].latitude = NaN
    \/ scenarios[k].longitude = NaN

\* C1: a call that returns reports valid_samples + invalid_samples =
\* total_samples = the requested count, and the counts of the heatmap bins
\* add up to valid_samples.
C1_SampleAccounting ==
    mc_pc = "done" =>
        /\ result.total_samples = samples
        /\ result.valid_samples + result.invalid_samples = result.total_samples
        /\ SumSeq(HeatmapCounts(result)) = result.valid_samples

C1_Witness ==
    /\ mc_pc = "done"
    /\ result.valid_samples >= 1
    /\ result.invalid_samples >= 1
    /\ \E k \in 1..Len(scenarios) :
          InterceptAt(k).found /\ scenarios[k].latitude = NaN

\* C2: the repetition of a seeded call with the same arguments returns the
\* same result (heatmap bins in the same order with the same counts and
\* probabilities, the same valid and invalid counts), whatever fallback
\* locations the scenarios drew at random.
C2_SeededReproducible ==
    (mc_pc = "done" /\ call_no = 2 /\ seed # NoSeed) => result = first_result

C2_Witness ==
    /\ mc_pc = "done"
    /\ call_no = 2
    /\ seed # NoSeed
    /\ result = first_result
    /\ result.valid_samples >= 1
    /\ scenarios # first_scenarios

\* C3: the histogram depends on the multiset of samples only.
Orders(n) == {o \in [1..n -> 1..n] : \A i, j \in 1..n : o[i] = o[j] => i = j}

EmptyAcc == [bin_counts |-> <<>>, sample_locations |-> <<>>]

RECURSIVE FoldSamples(_, _)
FoldSamples(order, acc) ==
    IF order = <<>> THEN acc
    ELSE FoldSamples(Tail(order),
                     ProcessSample(acc, ScenarioAt(Head(order)), bin_size_deg))

Keys(bc) == {bc[k].key : k \in 1..Len(bc)}
CountFor(bc, key) ==
    IF HasKey(bc, key)
    THEN (CHOOSE k \in 1..Len(bc) : bc[k].key = key) \* index of the key
    ELSE 0
CountOf(bc, key) == IF HasKey(bc, key) THEN bc[CountFor(bc, key)].count ELSE 0
SameHistogram(b1, b2) ==
    \A key \in Keys(b1) \cup Keys(b2) : CountOf(b1, key) = CountOf(b2, key)

\* merge of two partial histograms: the counts of equal keys are added
RECURSIVE MergeCounts(_, _)
MergeCounts(b1, b2) ==
    IF b2 = <<>> THEN b1
    ELSE LET e == Head(b2)
             merged ==
                 IF HasKey(b1, e.key)
                 THEN [k \in 1..Len(b1) |->
                         IF b1[k].key = e.key
                         THEN [b1[k] EXCEPT !.count = @ + e.count]
                         ELSE b1[k]]
                 ELSE Append(b1, e)
         IN  MergeCounts(merged, Tail(b2))

SubOrder(order, W) == SelectSeq(order, LAMBDA i : i \in W)

\* C3: every order of processing the samples, and every split of them between
\* two workers whose partial bin counts are merged in either order, gives the
\* count of every bin, and the number of valid samples, of the sequential loop.
C3_OrderIndependent ==
    mc_pc = "done" =>
        \A o \in Orders(Len(scenarios)) :
            /\ \A all \in {FoldSamples(o, EmptyAcc)} :
                  /\ SameHistogram(all.bin_counts, bin_counts)
                  /\ Len(all.sample_locations) = result.valid_samples
            /\ \A W \in SUBSET (1..Len(scenarios)) :
                  \A one \in {FoldSamples(SubOrder(o, W), EmptyAcc)},
                     two \in {FoldSamples(
                                SubOrder(o, (1..Len(scenarios)) \ W), EmptyAcc)} :
                      /\ SameHistogram(
                            MergeCounts(one.bin_counts, two.bin_counts),
                            bin_counts)
                      /\ SameHistogram(
                            MergeCounts(two.bin_counts, one.bin_counts),
                            bin_counts)
                      /\ Len(one.sample_locations) + Len(two.sample_locations)
                             = result.valid_samples

C3_Witness ==
    /\ mc_pc = "done"
    /\ Len(bin_counts) >= 2
    /\ result.valid_samples >= 2

\* the submatrix the labels select from the matrix as given
InputRows ==
    IF covariance.matrix.ndim = 1 THEN Reshape(covariance.matrix.flat).rows
    ELSE covariance.matrix.rows
LabelsPresent ==
    \A k \in 1..6 : HasLabel(covariance.labels, RequiredLabels[k])
Extractable ==
    /\ covariance.matrix.ndim \in {1, 2}
    /\ covariance.matrix.ndim = 1 => Reshape(covariance.matrix.flat).ok
    /\ LabelsPresent
    /\ IndicesInside(InputRows, Indices)
Extracted == SubMatrix(InputRows, Indices)

InvalidCovariance ==
    \/ covariance.matrix.ndim = 0
    \/ ~LabelsPresent
    \/ /\ Extractable
       /\ \E ex \in {Evaluated(Extracted)} :
             /\ ~CholeskySucceeds(ex)
             /\ ~CholeskySucceeds(AddJitter(ex))

NothingSampled ==
    /\ samples_matrix = <<>>
    /\ sampled_elements = <<>>
    /\ scenarios = <<>>
    /\ ~result.returned

\* C4: with the matrix data missing, a required label missing, or a matrix
\* that is not positive definite even with the jitter, the call never reaches
\* the draw: it is on its way to the raise or has raised, no sample was drawn,
\* no scenario was computed and nothing is returned.
C4_InvalidCovarianceRaisesFirst ==
    InvalidCovariance =>
        /\ mc_pc \in {"matrix", "labels", "rng", "cholesky", "jitter", "raised"}
        /\ NothingSampled
        /\ (~ENABLED Next) => (mc_pc = "raised" /\ error # "none")

C4_Witness ==
    /\ mc_pc = "raised"
    /\ error = "LinAlgError"
    /\ samples >= 1
    /\ InvalidCovariance

NonSquare ==
    \/ /\ covariance.matrix.ndim = 2
       /\ Len(covariance.matrix.rows) # Len(covariance.matrix.rows[1])
    \/ /\ covariance.matrix.ndim = 1
       /\ ISqrt(Len(covariance.matrix.flat)) * ISqrt(Len(covariance.matrix.flat))
              # Len(covariance.matrix.flat)

\* C5: a matrix that is not square (2-D with unequal row and column counts, or
\* flat with a length that is no perfect square) is rejected before any
\* sampling, also when the six labels are present and inside the matrix.
C5_NonSquareRejected ==
    NonSquare => (mc_pc \notin {"draw", "loop", "done"} /\ NothingSampled)

\* C6: at most one jitter and at most two factorizations per call; sampling
\* uses the extracted submatrix as it is when the first factorization
\* succeeds, and the submatrix plus one jitter when only the second does; a
\* second failure raises with nothing sampled.
C6_RegularizedAtMostOnce ==
    /\ cholesky_calls <= 2
    /\ jitters <= 1
    /\ mc_pc \in {"draw", "loop", "done"} =>
          \E ex \in {Evaluated(Extracted)} :
              \/ /\ cholesky_calls = 1
                 /\ jitters = 0
                 /\ cov_submatrix = ex
                 /\ CholeskySucceeds(ex)
              \/ /\ cholesky_calls = 2
                 /\ jitters = 1
                 /\ cov_submatrix = AddJitter(ex)
                 /\ ~CholeskySucceeds(ex)
    /\ (mc_pc = "raised" /\ error = "LinAlgError") =>
          /\ cholesky_calls = 2
          /\ jitters = 1
          /\ NothingSampled

C6_Witness ==
    /\ mc_pc = "done"
    /\ jitters = 1
    /\ cholesky_calls = 2
    /\ samples >= 1

ValidIndices == {k \in 1..Len(scenarios) : ~InvalidAt(k)}

\* C7: an invalid sample (no intercept, or a nan latitude or longitude) does
\* not stop the loop: every requested sample is processed, the invalid ones
\* add no location and no bin and are counted in invalid_samples; with every
\* sample invalid the call returns an empty heatmap, valid_samples = 0 and no
\* mean.
C7_InvalidSamplesSkipped ==
    /\ mc_pc = "loop" =>
          /\ Len(sampled_elements) = sample_idx - 1
          /\ Len(sample_locations) = Cardinality(ValidIndices)
          /\ LET valid == SubOrder([k \in 1..Len(scenarios) |-> k],
                                   ValidIndices)
             IN  sample_locations =
                     [j \in 1..Len(sample_locations) |->
                         << scenarios[valid[j]].latitude,
                            scenarios[valid[j]].longitude >>]
          /\ SumSeq([k \in 1..Len(bin_counts) |-> bin_counts[k].count])
                 = Cardinality(ValidIndices)
    /\ mc_pc = "done" =>
          /\ Len(sampled_elements) = samples
          /\ result.invalid_samples = samples - Cardinality(ValidIndices)
          /\ result.valid_samples = Cardinality(ValidIndices)
          /\ ValidIndices = {} =>
                /\ result.heatmap = <<>>
                /\ result.valid_samples = 0
                /\ ~result.has_mean
    /\ mc_pc = "raised" => sampled_elements = <<>>

C7_Witness ==
    /\ mc_pc = "done"
    /\ samples >= 2
    /\ ValidIndices = {}
    /\ \E k \in 1..Len(scenarios) : ~InterceptAt(k).found
    /\ \E k \in 1..Len(scenarios) :
          InterceptAt(k).found /\ scenarios[k].latitude = NaN

C30_BinCentreOnGlobe ==
    mc_pc = "done" =>
        \A k \in 1..Len(result.heatmap) :
            /\ -Deg(90) <= result.heatmap[k].lat_center_deg
            /\ result.heatmap[k].lat_center_deg <= Deg(90)
            /\ -Deg(180) <= result.heatmap[k].lon_center_deg
            /\ result.heatmap[k].lon_center_deg <= Deg(180)

-----------------------------------------------------------------------------
(* OrbitalMechanics.calculate_atmospheric_entry (orbital_mechanics.py)      *)
(* Fixed point: lengths in decimetres, velocities in centimetres per second, *)
(* times in tenths of a second, sines and cosines in thousandths, densities *)
(* in 1e-6 kg/m^3, pressures in hundreds of pascal.                         *)

LenUnit == 10                     \* model units per metre
VelUnit == 100                    \* model units per metre per second
TimeUnit == 10                    \* model units per second
TrigUnit == 10^3                  \* model units per 1.0 of a sine or cosine
KmUnit == 1000 * LenUnit          \* model units per kilometre
KmPerSecond == 1000 * VelUnit     \* model units per kilometre per second
PressureUnit == 100               \* pascal per model unit

\* floor(a * b / c) without forming a * b; 0 <= (a % c) * |b| < 2^31
Scale(a, b, c) == (a \div c) * b + ((a % c) * b) \div c

\* math.sin / math.cos of math.radians(entry_angle_deg)
Sin(deg) ==
    CASE deg = 0 -> 0 [] deg = 45 -> 707 [] deg = 60 -> 866 [] deg = 90 -> TrigUnit
Cos(deg) ==
    CASE deg = 0 -> TrigUnit [] deg = 45 -> 707 [] deg = 60 -> 500 [] deg = 90 -> 0

h_scale == 8500                   \* scale height, metres
rho0 == 1225 * 10^3               \* sea level density
dt == 1                           \* 0.1 s
dt_space == 1 * TimeUnit          \* 1.0 s
ApproachTimeCap == 600 * TimeUnit \* time < 600
EntryTimeCap == 120 * TimeUnit    \* max_time = time + 120.0
FragmentationPressure == 10^6 \div PressureUnit     \* q > 1e6
FragmentationDiameter == 100      \* asteroid_diameter_m < 100
FragmentedPoints == 100           \* len(trajectory) < 100
Gravity == 981                    \* 9.81 m/s^2, in cm/s^2

\* math.exp(-n) for whole n, in millionths
ExpWhole(n) ==
    IF n > 14 THEN 0
    ELSE << 1000000, 367879, 135335, 49787, 18316, 6738, 2479, 912, 335, 123,
            45, 17, 6, 2, 1 >>[n + 1]

\* the series of math.exp(-t / 1000) for 0 <= t < 1000, in millionths: the
\* k-th term less the rest of the alternating series
RECURSIVE ExpSeries(_, _, _)
ExpSeries(t, k, term) ==
    IF term = 0 THEN 0
    ELSE term - ExpSeries(t, k + 1, (term * t) \div (1000 * k))

\* rho = rho0 * math.exp(-h / h_scale), for h > 0
AtmosphericDensity(h) ==
    LET metres == h \div LenUnit
        whole == metres \div h_scale
        part == ((metres % h_scale) * 1000) \div h_scale
        exp == (ExpWhole(whole) * (ExpSeries(part, 1, 10^6) \div 1000))
                   \div 1000
    IN  Scale(exp, rho0 \div 1000, 1000)

\* 0.5 * rho * v**2, the square of the velocity taken in units of 1e4 m^2/s^2
DynamicPressure(rho, v) ==
    LET ms == v \div VelUnit
        vv == Scale(ms, ms, 10^4)
    IN  ((rho \div 1000) * vv) \div 20 + ((rho % 1000) * vv) \div 20000

\* -(a_drag * dt): drag / mass = 0.5 * Cd * rho * v**2 * (pi r^2)
\*   / ((4/3) pi r^3 * density) = q * 3 / (2 * diameter * density), Cd = 1
DragSlowdown(q, diameter, density) ==
    Scale(q, (3 * PressureUnit * VelUnit) \div (2 * TimeUnit),
          diameter * density)

\* -(a_gravity * dt) = 9.81 * sin(angle) * dt, to the nearest unit
GravitySlowdown(angle) ==
    (Gravity * Sin(angle) + (TrigUnit * TimeUnit) \div 2) \div
        (TrigUnit * TimeUnit)

\* v * trig * step as a length: dx and -dh of one step
Advance(v, trig, step) ==
    (Scale(v, trig, TrigUnit) * step) \div (TimeUnit * (VelUnit \div LenUnit))

\* time += dt in the entry loop.  dt is the double nearest to 0.1,
\* TenthBits / 2^56, and every sum is rounded to a double.  The time after m
\* additions to the whole number of seconds the approach ended at is that
\* number + m * dt + time_err / 2^56; ae.time counts the tenths, ae.time_err
\* is the rounding accumulated so far.
TenthLowBits == 6554              \* (0.1 as a double) * 2^56 modulo 2^14
TopBinade == 9                    \* times stay below 2^10 seconds

\* the sum s of `tenths` tenths of a second, off by bias / (10 * 2^56), is at
\* least 2^j
AtLeastPow2(tenths, bias, j) ==
    IF j >= 0
    THEN tenths > 10 * 2^j \/ (tenths = 10 * 2^j /\ bias >= 0)
    ELSE tenths * 2^(-j) > 10 \/ (tenths * 2^(-j) = 10 /\ bias >= 0)

\* the binade of the sum: the largest j from `j` on with 2^j <= s
RECURSIVE TimeBinade(_, _, _)
TimeBinade(tenths, bias, j) ==
    IF j < TopBinade /\ AtLeastPow2(tenths, bias, j + 1)
    THEN TimeBinade(tenths, bias, j + 1)
    ELSE j

\* time_err after the m-th addition (tenths: ae.time after it), the sum
\* rounded to the nearest double, ties to even
AddTenth(m, tenths, err) ==
    LET ulp == 2^(TimeBinade(tenths, 4 * m + 10 * err, -4) + 4)
        low == (m * TenthLowBits + err) % ulp
        odd == (m * TenthLowBits + err) % (2 * ulp) >= ulp
    IN  IF 2 * low < ulp \/ (2 * low = ulp /\ ~odd)
        THEN err - low
        ELSE err + ulp - low

\* time < max_time, max_time = the whole seconds of the approach + 120.0
TimeBelowMax(loc) ==
    \/ loc.time < loc.max_time
    \/ /\ loc.time = loc.max_time
       /\ 10 * loc.time_err < -(4 * EntryTimeCap)

Point(time, h, v, x, q, rho) ==
    [time |-> time, altitude_km |-> h, velocity_km_s |-> v,
     horizontal_distance_km |-> x, dynamic_pressure_pa |-> q,
     atmospheric_density |-> rho]

\* arguments of the calls: the asteroid within the validated ranges of
\* AsteroidParameters, the default entry altitude, the default and other
\* start altitudes
\* initial_velocity_km_s is held in hundredths of a kilometre per second
\* (the validated range is every velocity above 0): 0.01, 1, 20 and 100 km/s
VelocityArgUnit == KmPerSecond \div 100
Velocities == {1, 100, 2000, 10000}
Angles == {0, 45, 60, 90}
Diameters == {50, 100}
Densities == {2500}
EntryAltitudes == {100}
StartAltitudes == {0, 100, 120, 10000}

\* no call of monte_carlo_impact_map is in progress
McIdle ==
    /\ covariance = [labels |-> <<>>, matrix |-> MatrixMissing]
    /\ nominal_elements = Elements(0, 0, 0, 0, 0, 0)
    /\ asteroid_params = [diameter |-> 0, velocity |-> 0, density |-> 0,
                          angle |-> 0]
    /\ samples = 0
    /\ bin_size_deg = 0
    /\ seed = NoSeed
    /\ mc_pc = "idle"
    /\ matrix_np = <<>>
    /\ cov_submatrix = <<>>
    /\ rng = 0
    /\ cholesky_calls = 0
    /\ jitters = 0
    /\ samples_matrix = <<>>
    /\ sample_idx = 0
    /\ sampled_elements = <<>>
    /\ scenarios = <<>>
    /\ bin_counts = <<>>
    /\ sample_locations = <<>>
    /\ result = NoResult
    /\ error = "none"
    /\ intercepts = {}
    /\ call_no = 1
    /\ first_result = NoResult
    /\ first_scenarios = <<>>

\* lines 289-305: the state before the approach loop
AeInit ==
    /\ \E vel \in Velocities, ang \in Angles, dia \in Diameters,
          den \in Densities, ent \in EntryAltitudes, sta \in StartAltitudes :
          /\ ae_args = [initial_velocity_km_s |-> vel, entry_angle_deg |-> ang,
                        asteroid_diameter_m |-> dia,
                        asteroid_density_kg_m3 |-> den,
                        entry_altitude_km |-> ent, start_altitude_km |-> sta]
          /\ ae = [pc |-> "approach", h |-> sta * KmUnit,
                   v |-> vel * VelocityArgUnit,
                   x |-> 0, time |-> 0, time_err |-> 0, max_time |-> 0,
                   broke |-> FALSE]
    /\ trajectory = <<>>
    /\ ae_result = NoResult

\* lines 307-323: one iteration of the approach loop
AeApproachStep ==
    /\ ae.pc = "approach"
    /\ ae.h > ae_args.entry_altitude_km * KmUnit
    /\ ae.time < ApproachTimeCap
    /\ trajectory' = Append(trajectory,
                            Point(ae.time, ae.h, ae.v, ae.x, 0, 0))
    /\ ae' = [ae EXCEPT
                !.x = @ + Advance(ae.v, Cos(ae_args.entry_angle_deg), dt_space),
                !.h = @ - Advance(ae.v, Sin(ae_args.entry_angle_deg), dt_space),
                !.time = @ + dt_space]
    /\ UNCHANGED <<not_ae_vars, ae_args, ae_result>>

\* lines 307, 330-335: the approach loop ends, max_time is set
AeApproachEnd ==
    /\ ae.pc = "approach"
    /\ ~(ae.h > ae_args.entry_altitude_km * KmUnit /\ ae.time < ApproachTimeCap)
    /\ ae' = [ae EXCEPT !.pc = "entry", !.max_time = ae.time + EntryTimeCap]
    /\ UNCHANGED <<not_ae_vars, ae_args, trajectory, ae_result>>

\* lines 337-377: one iteration of the entry loop, the break included
AeEntryStep ==
    /\ ae.pc = "entry"
    /\ ae.h > 0 /\ TimeBelowMax(ae) /\ ae.v > 0
    /\ LET angle == ae_args.entry_angle_deg
           rho == AtmosphericDensity(ae.h)
           v == ae.v
                  - DragSlowdown(DynamicPressure(rho, ae.v),
                                 ae_args.asteroid_diameter_m,
                                 ae_args.asteroid_density_kg_m3)
                  - GravitySlowdown(angle)
           x == ae.x + Advance(v, Cos(angle), dt)
           h == ae.h - Advance(v, Sin(angle), dt)
           q == DynamicPressure(rho, v)
           break == q > FragmentationPressure
                    /\ ae_args.asteroid_diameter_m < FragmentationDiameter
       IN  /\ trajectory' = Append(trajectory, Point(ae.time, h, v, x, q, rho))
           /\ ae' = [ae EXCEPT !.v = v, !.x = x, !.h = h, !.time = @ + dt,
                               !.time_err =
                                   AddTenth(ae.time + dt
                                              - (ae.max_time - EntryTimeCap),
                                            ae.time + dt, @),
                               !.broke = break,
                               !.pc = IF break THEN "return" ELSE "entry"]
    /\ UNCHANGED <<not_ae_vars, ae_args, ae_result>>

\* line 337: the entry loop ends by its condition
AeEntryEnd ==
    /\ ae.pc = "entry"
    /\ ~(ae.h > 0 /\ TimeBelowMax(ae) /\ ae.v > 0)
    /\ ae' = [ae EXCEPT !.pc = "return"]
    /\ UNCHANGED <<not_ae_vars, ae_args, trajectory, ae_result>>

\* mutant: the final velocity is reported however the integration ended
AeResultAlwaysVelocity(args, loc, n) ==
    [returned |-> TRUE,
     impact_velocity_km_s |-> loc.v,
     impact_distance_km |-> loc.x,
     entry_angle_deg |-> args.entry_angle_deg,
     fragmented |-> n < FragmentedPoints /\ loc.h > 0,
     airburst_altitude_km |-> IF loc.h > 0 THEN loc.h ELSE 0]

\* lines 380-381, 390-397: the returned dict but its trajectory; n is
\* len(trajectory).  Velocity and altitude stay in model units.
AeResult(args, loc, n) ==
    [returned |-> TRUE,
     impact_velocity_km_s |-> IF loc.h <= 0 THEN loc.v ELSE 0,
     impact_distance_km |-> loc.x,
     entry_angle_deg |-> args.entry_angle_deg,
     fragmented |-> n < FragmentedPoints /\ loc.h > 0,
     airburst_altitude_km |-> IF loc.h > 0 THEN loc.h ELSE 0]

\* lines 380-397: the inversion of the horizontal distances and the return
AeReturn ==
    /\ ae.pc = "return"
    /\ trajectory' = [k \in 1..Len(trajectory) |->
                        [trajectory[k] EXCEPT
                            !.horizontal_distance_km = ae.x - @]]
    /\ ae_result' = AeResult(ae_args, ae, Len(trajectory))
    /\ ae' = [ae EXCEPT !.pc = "done"]
    /\ UNCHANGED <<not_ae_vars, ae_args>>

EntryNext ==
    \/ AeApproachStep
    \/ AeApproachEnd
    \/ AeEntryStep
    \/ AeEntryEnd
    \/ AeReturn

EntryInit == McIdle /\ AeInit /\ OmIdle /\ IpIdle /\ GvIdle /\ ScIdle /\ KsIdle

EntrySpec == EntryInit /\ [][EntryNext]_vars

-----------------------------------------------------------------------------
(* Properties of calculate_atmospheric_entry *)

\* C9: when the entry loop was left by the break of the fragmentation rule
\* (dynamic pressure above 1 MPa, diameter below 100 m) with the altitude
\* above 0, the result has fragmented = true and airburst_altitude_km = the
\* altitude at the halt, for every start altitude and number of points.
C9_FragmentationReported ==
    (ae.pc = "done" /\ ae.broke /\ ae.h > 0) =>
        /\ ae_result.fragmented
        /\ ae_result.airburst_altitude_km = ae.h

\* C10: the result reports impact velocity 0 and the final altitude as the
\* airburst altitude when the integration ended above the ground, and the
\* final (positive) velocity and airburst altitude 0 when the altitude ended
\* at 0 or below.
C10_ImpactVelocityReported ==
    ae.pc = "done" =>
        /\ ae.h > 0 =>
              /\ ae_result.impact_velocity_km_s = 0
              /\ ae_result.airburst_altitude_km = ae.h
              /\ ae_result.airburst_altitude_km # 0
        /\ ae.h <= 0 =>
              /\ ae_result.impact_velocity_km_s = ae.v
              /\ ae.v > 0
              /\ ae_result.airburst_altitude_km = 0

\* an airburst: the rule halted a moving body above the ground after the
\* approach and entry phases both recorded points
C10_Witness ==
    /\ ae.pc = "done"
    /\ ae.broke
    /\ ae.h > 0
    /\ ae.v > 0
    /\ ae_result.impact_velocity_km_s = 0
    /\ Len(trajectory) > 1
    /\ trajectory[1].dynamic_pressure_pa = 0

\* C12: in the returned trajectory the horizontal_distance_km values never
\* increase from one point to the next and the last one is 0, however the
\* integration ended.
C12_DistanceRemaining ==
    ae.pc = "done" =>
        /\ \A k \in 1..(Len(trajectory) - 1) :
              trajectory[k].horizontal_distance_km
                  >= trajectory[k + 1].horizontal_distance_km
        /\ trajectory # <<>> =>
              trajectory[Len(trajectory)].horizontal_distance_km = 0

\* the number of points the approach loop recorded: one per second of its time
ApproachPoints ==
    IF ae.pc = "approach" THEN Len(trajectory)
    ELSE (ae.max_time - EntryTimeCap) \div dt_space
EntryPoints == Len(trajectory) - ApproachPoints

\* C13: the approach phase records at most 600 points and the entry phase at
\* most 1200 points, also at entry angle 0 and when the fragmentation rule
\* never fires.
C13_PointCaps ==
    ae.pc # "idle" =>
        /\ ApproachPoints <= ApproachTimeCap \div dt_space
        /\ EntryPoints <= EntryTimeCap \div dt

\* IMPACT: the altitude ended at 0 or below and the final velocity is reported
Impact ==
    /\ ae.h <= 0
    /\ ae_result.impact_velocity_km_s = ae.v
    /\ ae_result.impact_velocity_km_s > 0

\* AIRBURST: the fragmentation rule halted the entry loop above the ground and
\* the result says so
Airburst ==
    /\ ae.broke
    /\ ae_result.fragmented
    /\ ae_result.airburst_altitude_km > 0

\* C25: every run ends in exactly one of IMPACT (final altitude <= 0, impact
\* velocity reported) and AIRBURST (halted by the fragmentation rule,
\* fragmented = true, airburst altitude > 0); no run ends above the ground
\* with impact velocity 0 and fragmented = false.
C25_ImpactOrAirburst ==
    ae.pc = "done" =>
        /\ Impact \/ Airburst
        /\ ~(Impact /\ Airburst)
        /\ ~(/\ ae.h > 0
             /\ ae_result.impact_velocity_km_s = 0
             /\ ~ae_result.fragmented)

\* the default of start_altitude_km
DefaultStartAltitude == 10000

\* C26: from the default start altitude of 10000 km, for every velocity and
\* angle, the entry phase starts only with the altitude at or below
\* entry_altitude_km.
C26_EntryBelowEntryAltitude ==
    (ae.pc = "entry" /\ ae_args.start_altitude_km = DefaultStartAltitude) =>
        ae.h <= ae_args.entry_altitude_km * KmUnit

\* C28: fragmented = true implies that the fragmentation rule (dynamic
\* pressure above 1 MPa and diameter below 100 m) halted the entry loop of
\* that run; a body of diameter 100 m or more is never reported fragmented.
C28_FragmentedOnlyByRule ==
    (ae.pc = "done" /\ ae_result.fragmented) =>
        /\ ae.broke
        /\ ae_args.asteroid_diameter_m < FragmentationDiameter

\* C29: no point of the trajectory has a negative altitude, the last one
\* recorded when the ground is reached included.
C29_AltitudeNotNegative ==
    \A k \in 1..Len(trajectory) : trajectory[k].altitude_km >= 0

-----------------------------------------------------------------------------
(* OrbitalMechanics.keplerian_to_cartesian and its callers                  *)
(* (orbital_mechanics.py).  Fixed point: angles in 1e-8 radian, sines,      *)
(* cosines, eccentricities and ratios in 1e-8 (One), positions in           *)
(* kilometres, velocities in 1e-6 km/s.  Every product is split so that it  *)
(* stays below 2^31.                                                        *)

One == 10^8                       \* model units per 1.0
HalfDigits == 10^4                \* the square root of One
Abs(a) == IF a >= 0 THEN a ELSE -a
Sgn(a) == IF a > 0 THEN 1 ELSE IF a < 0 THEN -1 ELSE 0

\* a * b / One for a, b >= 0, rounded
MulPos(a, b) ==
    LET ah == a \div HalfDigits
        al == a % HalfDigits
        bh == b \div HalfDigits
        bl == b % HalfDigits
    IN  ah * bh
        + (ah * bl + al * bh + (al * bl + HalfDigits \div 2) \div HalfDigits
           + HalfDigits \div 2) \div HalfDigits
Mul(a, b) == Sgn(a) * Sgn(b) * MulPos(Abs(a), Abs(b))

\* long division: q followed by the next n decimal digits of r / b
RECURSIVE DivDigits(_, _, _, _)
DivDigits(r, b, q, n) ==
    IF n = 0 THEN q
    ELSE DivDigits((r * 10) % b, b, q * 10 + (r * 10) \div b, n - 1)
\* a * One / b for a >= 0 and 0 < b < 2^31 / 10
DivPos(a, b) == DivDigits(a % b, b, a \div b, 8)
Div(a, b) == Sgn(a) * Sgn(b) * DivPos(Abs(a), Abs(b))
\* a / b in units of One for a >= 0 and any b > 0
Ratio(a, b) ==
    LET k == b \div (2 * One) + 1
    IN  DivPos(a \div k, b \div k)

Pi == 314159265
TwoPi == 628318531
HalfPi == 157079633
RadiansPerDegree == 174532925     \* pi / 180, in 1e-10
\* np.radians of an angle in units of 1e-5 degree
np_radians(deg) == Mul(deg * 10, RadiansPerDegree)

\* x - x^3/3! + x^5/5! - ..., summed until the terms vanish
RECURSIVE SinSeries(_, _, _)
SinSeries(x, term, k) ==
    IF term = 0 THEN 0
    ELSE term + SinSeries(x,
                          -Sgn(term) * ((Mul(Mul(Abs(term), x), x)
                                         + k * (2 * k + 1))
                                        \div ((2 * k) * (2 * k + 1))),
                          k + 1)
\* the angle reduced to (-pi, pi]
WrapAngle(x) ==
    LET y == x % TwoPi
    IN  IF y > Pi THEN y - TwoPi ELSE y
\* math.sin never leaves [-1, 1]: the rounded series is clamped to it
np_sin(x) ==
    LET w == WrapAngle(x)
        folded == IF w > HalfPi THEN Pi - w
                  ELSE IF w < -HalfPi THEN -Pi - w
                  ELSE w
    IN  Max(-One, Min(One, SinSeries(folded, folded, 1)))
np_cos(x) == np_sin(x + HalfPi)

SqrtIterations == 30
RECURSIVE SqrtIter(_, _, _)
SqrtIter(value, guess, n) ==
    IF n = 0 \/ guess = 0 THEN guess
    ELSE LET better == (guess + Div(value, guess)) \div 2
         IN  IF better = guess THEN guess ELSE SqrtIter(value, better, n - 1)
np_sqrt(value) == IF value <= 0 THEN 0 ELSE SqrtIter(value, One, SqrtIterations)

\* np.linalg.norm of a 3-vector
ScaledNorm(p, m) ==
    IF m = 0 THEN 0
    ELSE Mul(m, np_sqrt(Mul(Ratio(Abs(p[1]), m), Ratio(Abs(p[1]), m))
                        + Mul(Ratio(Abs(p[2]), m), Ratio(Abs(p[2]), m))
                        + Mul(Ratio(Abs(p[3]), m), Ratio(Abs(p[3]), m))))
np_linalg_norm(p) == ScaledNorm(p, Max(Abs(p[1]), Max(Abs(p[2]), Abs(p[3]))))

AU_TO_KM == 149597871             \* 149597870.7, to the kilometre
EARTH_RADIUS == 6371              \* km
CircularSpeed == 29784692         \* sqrt(SUN_MU / 1 AU), in 1e-6 km/s
KeplerIterations == 100           \* for _ in range(100)

\* semi_major_axis_au in units of 1e-5 AU, times AU_TO_KM = 149597870.7
AuToKm(a) ==
    a * 1495 + ((a \div 1000) * 978707
                + ((a % 1000) * 978707) \div 1000) \div 1000

\* _solve_keplers_equation: [E |-> the value returned, iterations |-> the
\* number of Newton steps taken].  The tolerance 1e-8 is one model unit.
RECURSIVE NewtonKepler(_, _, _, _)
NewtonKepler(M, e, E, done) ==
    IF done = KeplerIterations THEN [E |-> E, iterations |-> done]
    ELSE LET f == E - Mul(e, np_sin(E)) - M
             f_prime == One - Mul(e, np_cos(E))
             E_new == E - Div(f, f_prime)
         IN  IF Abs(E_new - E) < 1
             THEN [E |-> E_new, iterations |-> done + 1]
             ELSE NewtonKepler(M, e, E_new, done + 1)
solve_keplers_equation(M, e) == NewtonKepler(M, e, M, 0).E

\* keplerian_to_cartesian: heliocentric position (km) and velocity (1e-6 km/s)
\* of the element set el (units of 1e-5).
\* The stages below pass each intermediate value on as a parameter, in the
\* order of the code.

\* the rotation with the inclination left out of the first two rows
RotatedByFlat(x_orb, y_orb, vx_orb, vy_orb, cos_w, sin_w, cos_i, sin_i, cos_o, sin_o) ==
    LET R11 == Mul(cos_o, cos_w) - Mul(sin_o, sin_w)
        R12 == -Mul(cos_o, sin_w) - Mul(sin_o, cos_w)
        R21 == Mul(sin_o, cos_w) + Mul(cos_o, sin_w)
        R22 == -Mul(sin_o, sin_w) + Mul(cos_o, cos_w)
        R31 == Mul(sin_w, sin_i)
        R32 == Mul(cos_w, sin_i)
    IN  [position |-> << Mul(x_orb, R11) + Mul(y_orb, R12),
                         Mul(x_orb, R21) + Mul(y_orb, R22),
                         Mul(x_orb, R31) + Mul(y_orb, R32) >>,
         velocity |-> << Mul(vx_orb, R11) + Mul(vy_orb, R12),
                         Mul(vx_orb, R21) + Mul(vy_orb, R22),
                         Mul(vx_orb, R31) + Mul(vy_orb, R32) >>]
\* lines 92-118: the rotation from the orbital plane to the ecliptic frame
RotatedBy(x_orb, y_orb, vx_orb, vy_orb, cos_w, sin_w, cos_i, sin_i, cos_o, sin_o) ==
    LET R11 == Mul(cos_o, cos_w) - Mul(Mul(sin_o, sin_w), cos_i)
        R12 == -Mul(cos_o, sin_w) - Mul(Mul(sin_o, cos_w), cos_i)
        R21 == Mul(sin_o, cos_w) + Mul(Mul(cos_o, sin_w), cos_i)
        R22 == -Mul(sin_o, sin_w) + Mul(Mul(cos_o, cos_w), cos_i)
        R31 == Mul(sin_w, sin_i)
        R32 == Mul(cos_w, sin_i)
    IN  [position |-> << Mul(x_orb, R11) + Mul(y_orb, R12),
                         Mul(x_orb, R21) + Mul(y_orb, R22),
                         Mul(x_orb, R31) + Mul(y_orb, R32) >>,
         velocity |-> << Mul(vx_orb, R11) + Mul(vy_orb, R12),
                         Mul(vx_orb, R21) + Mul(vy_orb, R22),
                         Mul(vx_orb, R31) + Mul(vy_orb, R32) >>]

\* lines 69-89: position and velocity in the orbital plane, then rotated
InOrbitalPlane(el, e, r, cos_nu, sin_nu, h_over_r) ==
    RotatedBy(Mul(r, cos_nu), Mul(r, sin_nu),
              -Mul(h_over_r, sin_nu), Mul(h_over_r, e + cos_nu),
              np_cos(np_radians(el.argument_periapsis_deg)),
              np_sin(np_radians(el.argument_periapsis_deg)),
              np_cos(np_radians(el.inclination_deg)),
              np_sin(np_radians(el.inclination_deg)),
              np_cos(np_radians(el.longitude_ascending_node_deg)),
              np_sin(np_radians(el.longitude_ascending_node_deg)))

\* lines 60-64, 77: the true anomaly nu = 2 atan2(s, c); cos(nu), sin(nu) are
\* (c^2 - s^2) / (c^2 + s^2) and 2 s c / (c^2 + s^2)
FromHalfAngle(el, e, r, s, c) ==
    InOrbitalPlane(el, e, r,
                   Div(Mul(c, c) - Mul(s, s), Mul(c, c) + Mul(s, s)),
                   Div(2 * Mul(s, c), Mul(c, c) + Mul(s, s)),
                   Mul(Mul(CircularSpeed,
                           np_sqrt(Mul(el.semi_major_axis_au * (One \div ElemUnit),
                                       One - Mul(e, e)))),
                       Ratio(AU_TO_KM, r)))

\* lines 61-67: the distance r and the two arguments of atan2, from E
FromEccentricAnomaly(el, e, E) ==
    FromHalfAngle(el, e,
                  AuToKm(el.semi_major_axis_au)
                    - Mul(AuToKm(el.semi_major_axis_au), Mul(e, np_cos(E))),
                  Mul(np_sqrt(One + e), np_sin(E \div 2)),
                  Mul(np_sqrt(One - e), np_cos(E \div 2)))

\* lines 33-118
keplerian_to_cartesian(el) ==
    FromEccentricAnomaly(
        el, el.eccentricity * (One \div ElemUnit),
        solve_keplers_equation(np_radians(el.mean_anomaly_deg),
                               el.eccentricity * (One \div ElemUnit)))

-----------------------------------------------------------------------------
(* OrbitalMechanics.find_earth_intercept as a state machine *)

target_radius == AU_TO_KM         \* 1.0 * AU_TO_KM
tolerance_km == 5000
LastSweepStep == 360              \* range(0, 361, 2)
SweepStride == 2
earth_speed == 29780000           \* 29.78 km/s
DefaultEarthDir == <<0, 30000000, 0>>     \* np.array([0, 30.0, 0])
SpeedFloor == 1                   \* 1e-6 km/s

\* orbits swept: circular at 1 AU, perihelion at 1 AU, crossing 1 AU between
\* two samples, aphelion at 1 AU, circular 3000 km and 6000 km outside,
\* retrograde with eccentricity 0.5 and perihelion at 1 AU
SweepOrbits ==
    { Elements(ElemUnit, 0, 0, 0, 0, 0),
      Elements(125000, 20000, Deg(10), Deg(30), Deg(40), 0),
      Elements(120000, 20000, Deg(10), Deg(30), Deg(40), 0),
      Elements(83333, 20000, Deg(5), 0, 0, Deg(90)),
      Elements(ElemUnit + 2, 0, 0, 0, 0, 0),
      Elements(ElemUnit + 4, 0, Deg(20), 0, 0, 0),
      Elements(200000, 50000, Deg(120), Deg(200), Deg(300), 0) }

\* the residual |distance - 1 AU| of the sample at mean anomaly step (degrees)
SampleOf(step, position, velocity, distance) ==
    [step |-> step, position |-> position, velocity |-> velocity,
     distance |-> distance, diff |-> Abs(distance - target_radius)]
SampleFrom(step, pv) ==
    SampleOf(step, pv.position, pv.velocity, np_linalg_norm(pv.position))
SampleAtHalf(el, step) ==
    SampleFrom(step,
               keplerian_to_cartesian(
                   [el EXCEPT !.mean_anomaly_deg = Deg(step) \div 2]))
SampleAt(el, step) ==
    SampleFrom(step,
               keplerian_to_cartesian([el EXCEPT !.mean_anomaly_deg = Deg(step)]))

\* line 204: if diff < closest_diff
CloserOrEqual(diff, closest_diff) == diff <= closest_diff
Closer(diff, closest_diff) == diff < closest_diff

FiInit ==
    /\ orbital_elements \in SweepOrbits
    /\ fi = [pc |-> "sweep", step |-> 0, closest |-> NoClosest,
             closest_diff |-> Infinity]
    /\ fi_result = NoResult

\* lines 196-206: one iteration of the sweep
FiSweepStep ==
    /\ fi.pc = "sweep"
    /\ fi.step <= LastSweepStep
    /\ \E sample \in {SampleAt(orbital_elements, fi.step)} :
          fi' = IF Closer(sample.diff, fi.closest_diff)
                THEN [fi EXCEPT !.step = @ + SweepStride,
                                !.closest_diff = sample.diff,
                                !.closest = [step |-> sample.step,
                                             position |-> sample.position,
                                             velocity |-> sample.velocity,
                                             distance |-> sample.distance]]
                ELSE [fi EXCEPT !.step = @ + SweepStride]
    /\ UNCHANGED <<not_om_vars, orbital_elements, fi_result>>

NoneReturned == [returned |-> TRUE, found |-> FALSE]

\* v scaled to length len: v / norm(v) * len
Scaled(v, len) ==
    LET n == np_linalg_norm(v)
    IN  [k \in 1..3 |-> Sgn(v[k]) * Mul(len, Ratio(Abs(v[k]), n))]

\* lines 208-256: what is returned for the closest sample.  latitude,
\* longitude, azimuth_deg and entry_angle_deg of the dict are left out.
InterceptOf(closest, closest_diff) ==
    IF closest = NoClosest \/ closest_diff > tolerance_km THEN NoneReturned
    ELSE IF closest.distance = 0 THEN NoneReturned
    ELSE LET pos_vec == closest.position
             earth_pos == Scaled(pos_vec, target_radius)
             relative_position == [k \in 1..3 |-> pos_vec[k] - earth_pos[k]]
             cross == << -pos_vec[2], pos_vec[1], 0 >>
             earth_dir == IF np_linalg_norm(cross) = 0 THEN DefaultEarthDir
                          ELSE Scaled(cross, earth_speed)
             relative_vel == [k \in 1..3 |-> closest.velocity[k] - earth_dir[k]]
             rel_speed == np_linalg_norm(relative_vel)
         IN  IF rel_speed < SpeedFloor THEN NoneReturned
             ELSE [returned |-> TRUE, found |-> TRUE,
                   entry_velocity_km_s |-> rel_speed,
                   mean_anomaly_deg |-> closest.step,
                   distance_to_orbit_km |-> closest_diff,
                   relative_velocity_vector |-> relative_vel,
                   position_vector |-> pos_vec,
                   relative_position_vector |-> relative_position]

\* lines 196, 208-256: the sweep is over, the result is returned
FiReturn ==
    /\ fi.pc = "sweep"
    /\ fi.step > LastSweepStep
    /\ fi_result' = InterceptOf(fi.closest, fi.closest_diff)
    /\ fi' = [fi EXCEPT !.pc = "done"]
    /\ UNCHANGED <<not_om_vars, orbital_elements>>

OrbitNext ==
    \/ FiSweepStep
    \/ FiReturn

OrbitInit == McIdle /\ AeIdle /\ FiInit /\ IpIdle /\ GvIdle /\ ScIdle /\ KsIdle

OrbitSpec == OrbitInit /\ [][OrbitNext]_vars

-----------------------------------------------------------------------------
(* Properties of find_earth_intercept *)

SweepSamples == (LastSweepStep \div SweepStride) + 1
\* the residuals of the samples at 0, 2, ..., 360, in sweep order
Residuals(el) ==
    [k \in 1..SweepSamples |-> SampleAt(el, SweepStride * (k - 1)).diff] \o <<>>
Smallest(res) == CHOOSE m \in {res[k] : k \in 1..Len(res)} :
                    \A k \in 1..Len(res) : m <= res[k]
FirstAt(res, m) == CHOOSE k \in 1..Len(res) :
                      res[k] = m /\ \A j \in 1..(k - 1) : res[j] # m

\* C11: the sweep takes the 181 samples at mean anomaly 0, 2, ..., 360; None
\* is returned whenever the smallest residual |distance - 1 AU| of these
\* samples exceeds 5000 km; a returned dict reports as mean_anomaly_deg and
\* distance_to_orbit_km the step and residual of the first sample in sweep
\* order that attains the smallest residual.
C11_FirstClosestSample ==
    fi.pc = "done" =>
        /\ fi.step = SweepStride * SweepSamples
        /\ \A res \in {Residuals(orbital_elements)} :
              /\ Smallest(res) > tolerance_km => ~fi_result.found
              /\ fi_result.found =>
                    /\ fi_result.distance_to_orbit_km = Smallest(res)
                    /\ fi_result.mean_anomaly_deg
                         = SweepStride * (FirstAt(res, Smallest(res)) - 1)

\* a dict was returned for an orbit whose samples at 0 and at 360 degrees
\* both attain the smallest residual: the one at 0 is reported
C11_Witness ==
    /\ fi.pc = "done"
    /\ fi_result.found
    /\ fi_result.mean_anomaly_deg = 0
    /\ SampleAt(orbital_elements, LastSweepStep).diff
         = fi_result.distance_to_orbit_km


\* a(1 - e) in km
PerihelionDistance(el) ==
    Mul(AuToKm(el.semi_major_axis_au),
        One - el.eccentricity * (One \div ElemUnit))
\* a relative tolerance of 1e-6
RelativeTolerance(distance) == distance \div 10^6

\* C22: the sample at mean anomaly 0 (the closest one after the first
\* iteration of the sweep) lies at the perihelion distance a(1 - e), within
\* a relative tolerance of 1e-6, for every inclination, node and argument
\* of periapsis swept.
C22_PerihelionAtZero ==
    (fi.pc = "sweep" /\ fi.step = SweepStride) =>
        /\ fi.closest.step = 0
        /\ Abs(fi.closest.distance - PerihelionDistance(orbital_elements))
             <= RelativeTolerance(PerihelionDistance(orbital_elements))

\* the sample at 0 was taken for an eccentric, inclined orbit with a turned
\* node and periapsis
C22_Witness ==
    /\ fi.pc = "sweep"
    /\ fi.step = SweepStride
    /\ fi.closest.step = 0
    /\ orbital_elements.eccentricity > 0
    /\ orbital_elements.inclination_deg > 0
    /\ orbital_elements.longitude_ascending_node_deg > 0
    /\ orbital_elements.argument_periapsis_deg > 0

FirstSample == SampleAt(orbital_elements, 0)
LastSample == SampleAt(orbital_elements, LastSweepStep)

\* C23: once the sweep is over, its first sample (mean anomaly 0) and its
\* last sample (mean anomaly 360) lie at the same heliocentric distance
\* within a relative tolerance of 1e-6, and so do their residuals.
C23_ClosedOrbit ==
    fi.pc = "done" =>
        /\ Abs(FirstSample.distance - LastSample.distance)
             <= RelativeTolerance(FirstSample.distance)
        /\ Abs(FirstSample.diff - LastSample.diff)
             <= RelativeTolerance(FirstSample.distance)

\* the sweep of an eccentric orbit is over
C23_Witness ==
    /\ fi.pc = "done"
    /\ fi.step > LastSweepStep
    /\ orbital_elements.eccentricity > 0
    /\ FirstSample.distance > 0

-----------------------------------------------------------------------------
(* EnhancedPhysicsEngine (impact_physics.py).                               *)
(* Floats are modelled as sign, significand and binary exponent; every      *)
(* operation rounds its exact result to the significand of its type, ties   *)
(* to even.  float64 has DoubleBits and float32 SingleBits significant      *)
(* bits; the exponent is unbounded.                                         *)

DoubleBits == 10                  \* significand of a Python float (53 bits)
SingleBits == 8                   \* significand of np.float32 (24 bits)

RECURSIVE BitLength(_)
BitLength(n) == IF n = 0 THEN 0 ELSE 1 + BitLength(n \div 2)

FloatZero == [s |-> 0, m |-> 0, e |-> 0]
\* the float of p significant bits nearest to sign * mag * 2^e
RoundTo(sign, mag, e, p) ==
    LET b == BitLength(mag)
        k == b - p
        q == mag \div 2^k
        r == mag % 2^k
        up == 2 * r > 2^k \/ (2 * r = 2^k /\ q % 2 = 1)
    IN  IF mag = 0 \/ sign = 0 THEN FloatZero
        ELSE IF b <= p THEN [s |-> sign, m |-> mag * 2^(p - b), e |-> e - (p - b)]
        ELSE IF up /\ q + 1 = 2^p THEN [s |-> sign, m |-> 2^(p - 1), e |-> e + k + 1]
        ELSE [s |-> sign, m |-> IF up THEN q + 1 ELSE q, e |-> e + k]

FromInt(n, p) == RoundTo(Sgn(n), Abs(n), 0, p)
\* a float converted to the type of p significant bits
Cast(x, p) == RoundTo(x.s, x.m, x.e, p)
FMul(x, y, p) == RoundTo(x.s * y.s, x.m * y.m, x.e + y.e, p)
\* x / y for y # 0: the quotient to p + 2 bits and a sticky bit
FDiv(x, y, p) ==
    LET num == x.m * 2^(p + 2)
    IN  RoundTo(x.s * y.s,
                2 * (num \div y.m) + (IF num % y.m = 0 THEN 0 ELSE 1),
                x.e - y.e - (p + 3), p)
\* x ** 2 and x ** 3
FSquare(x, p) == FMul(x, x, p)
FCube(x, p) == RoundTo(x.s, x.m * x.m * x.m, 3 * x.e, p)

\* x < y for floats of the same type
FLess(x, y) ==
    IF x.s # y.s THEN x.s < y.s
    ELSE IF x.s = 0 THEN FALSE
    ELSE IF x.s = 1 THEN x.e < y.e \/ (x.e = y.e /\ x.m < y.m)
    ELSE y.e < x.e \/ (x.e = y.e /\ y.m < x.m)
FLessEq(x, y) == x = y \/ FLess(x, y)

\* the literal digits * 10^tens, rounded to p bits
RECURSIVE Literal(_, _, _)
Literal(digits, tens, p) ==
    IF tens = 0 THEN FromInt(digits, p)
    ELSE IF tens > 0 THEN FMul(Literal(digits, tens - 1, p), FromInt(10, p), p)
    ELSE FDiv(Literal(digits, tens + 1, p), FromInt(10, p), p)

MathPi(p) == RoundTo(1, 1686629713, -29, p)      \* math.pi = 1686629713 / 2^29

\* the first n bits of the binary logarithm of y / 2^14, for 2^14 <= y < 2^15
RECURSIVE Log2Frac(_, _)
Log2Frac(y, n) ==
    IF n = 0 THEN 0
    ELSE LET sq == (y * y) \div 2^14
         IN  IF sq >= 2^15 THEN 2^(n - 1) + Log2Frac(sq \div 2, n - 1)
             ELSE Log2Frac(sq, n - 1)
\* math.log10(x) for x > 0 of p bits, in thousandths
Log10(x, p) ==
    Scale((x.e + p - 1) * 1024 + Log2Frac(x.m * 2^(15 - p), 10), 3010, 10240)

\* math.sin(math.radians(angle)) for the angles of the model
SinDegrees(angle, p) ==
    CASE angle = 0 -> FloatZero
      [] angle = 20 -> Literal(3420, -4, p)
      [] angle = 45 -> Literal(7071, -4, p)
      [] angle = 90 -> FromInt(1, p)

MagnitudeUnit == 1000             \* model units per 1.0 of seismic magnitude
MagnitudeCap == 12 * MagnitudeUnit
MagnitudeOffset == 10700          \* 10.7

\* lines 73-77 and 222-224: mass of the sphere, four_thirds_pi = (4.0/3.0) * pi
MassOfDiameter(diameter, density, four_thirds_pi, p) ==
    FMul(density, FMul(four_thirds_pi, FCube(diameter, p), p), p)
Mass(diameter, density, four_thirds_pi, p) ==
    LET radius == FDiv(diameter, FromInt(2, p), p)
        volume == FMul(four_thirds_pi, FCube(radius, p), p)
    IN  FMul(density, volume, p)

\* lines 80 and 227: 0.5 * mass * velocity_ms ** 2
KineticEnergyInverse(mass, velocity_ms, p) ==
    FDiv(FMul(Literal(5, -1, p), mass, p), FSquare(velocity_ms, p), p)
KineticEnergy(mass, velocity_ms, p) ==
    FMul(FMul(Literal(5, -1, p), mass, p), FSquare(velocity_ms, p), p)

\* lines 92 and 235: pi_2 = gravity * radius * sin(angle) / velocity_ms ** 2
Pi2(diameter, velocity_ms, angle, p) ==
    FDiv(FMul(FMul(Literal(981, -2, p), FDiv(diameter, FromInt(2, p), p), p),
              SinDegrees(angle, p), p),
         FSquare(velocity_ms, p), p)

\* lines 107-111: the magnitude of compute_impact_effects, in thousandths
SeismicMagnitude(energy_ergs, p) ==
    IF energy_ergs.s > 0
    THEN Max(0, Min((2 * Log10(energy_ergs, p)) \div 3 - MagnitudeOffset,
                    MagnitudeCap))
    ELSE 0

\* lines 245-246: cp.clip((2/3) * cp.log10(energy_ergs + 1e-10) - 10.7, 0, 12).
\* energy_ergs + 1e-10 is 1e-10 for 0 and rounds to energy_ergs for every
\* other energy of the model; the logarithm of a negative number is nan, and
\* clip leaves nan as it is.
GpuSeismicMagnitude(energy_ergs, p) ==
    LET shifted == IF energy_ergs.s = 0
                   THEN Cast(Literal(1, -10, DoubleBits), p) ELSE energy_ergs
    IN  IF shifted.s < 0 THEN NaN
        ELSE Max(0, Min((2 * Log10(shifted, p)) \div 3 - MagnitudeOffset,
                        MagnitudeCap))

\* compute_impact_effects raises ZeroDivisionError at line 93 when pi_2 is
\* 0.0: 0.0 ** (-0.22)
Raises(params) ==
    Pi2(params.diameter, FMul(params.velocity, FromInt(1000, DoubleBits), DoubleBits),
        params.angle, DoubleBits).s = 0

\* compute_impact_effects, lines 64-140, when it does not raise.  The crater,
\* thermal and overpressure fields of the dict are left out.
compute_impact_effects(params, on_device) ==
    LET p == DoubleBits
        velocity_ms == FMul(params.velocity, FromInt(1000, p), p)
        mass == Mass(params.diameter, params.density,
                     FMul(FDiv(FromInt(4, p), FromInt(3, p), p), MathPi(p), p), p)
        kinetic_energy == KineticEnergy(mass, velocity_ms, p)
        energy_ergs == FMul(kinetic_energy, Literal(1, 7, p), p)
    IN  [kinetic_energy_joules |-> kinetic_energy,
         energy_mt_tnt |-> FDiv(kinetic_energy, Literal(4184, 12, p), p),
         seismic_magnitude |-> SeismicMagnitude(energy_ergs, p),
         seismic_energy_ergs |-> energy_ergs,
         mass_kg |-> mass,
         calculation_method |-> IF on_device THEN "gpu_enhanced_physics"
                                ELSE "cpu_enhanced_physics"]

\* _compute_batch_gpu and _gpu_compute_impacts for one row, lines 168-263:
\* the inputs are stored as float32, the operations are float32 operations,
\* and float() widens the outputs
GpuEffects(params) ==
    LET p == SingleBits
        velocity == FMul(Cast(params.velocity, p), FromInt(1000, p), p)
        mass == Mass(Cast(params.diameter, p), Cast(params.density, p),
                     Cast(FMul(FDiv(FromInt(4, DoubleBits), FromInt(3, DoubleBits),
                                    DoubleBits),
                               MathPi(DoubleBits), DoubleBits), p), p)
        kinetic_energy == KineticEnergy(mass, velocity, p)
        energy_ergs == FMul(kinetic_energy, Cast(Literal(1, 7, DoubleBits), p), p)
    IN  [kinetic_energy_joules |-> Cast(kinetic_energy, DoubleBits),
         energy_mt_tnt |->
             Cast(FDiv(kinetic_energy, Cast(Literal(4184, 12, DoubleBits), p), p),
                  DoubleBits),
         seismic_magnitude |-> GpuSeismicMagnitude(energy_ergs, p),
         seismic_energy_ergs |-> Cast(energy_ergs, DoubleBits),
         calculation_method |-> "gpu_enhanced_physics"]

-----------------------------------------------------------------------------
(* EnhancedPhysicsEngine.compute_batch_impacts as a state machine *)

GpuBatchSize == 10                \* len(asteroid_params_list) > 10

\* 20.65625, 20.6875 and 25.0 km/s: two neighbouring floats and a distant one
BatchVelocities ==
    { [s |-> 1, m |-> 661, e |-> -5], [s |-> 1, m |-> 662, e |-> -5],
      FromInt(25, DoubleBits) }
AsteroidInputs ==
    { [diameter |-> FromInt(dia, DoubleBits), velocity |-> vel,
       density |-> FromInt(den, DoubleBits), angle |-> ang] :
        dia \in {50, 100}, vel \in BatchVelocities,
        den \in {2000, -2000}, ang \in {0, 45} }

\* the inputs of validate_tunguska_event / validate_tunguska and of
\* validate_chelyabinsk (routes/simulation.py)
tunguska_params ==
    [diameter |-> FromInt(50, DoubleBits), velocity |-> FromInt(27, DoubleBits),
     density |-> FromInt(2000, DoubleBits), angle |-> 45]
chelyabinsk_params ==
    [diameter |-> FromInt(20, DoubleBits), velocity |-> FromInt(19, DoubleBits),
     density |-> FromInt(3300, DoubleBits), angle |-> 20]

\* one input, two inputs, and two inputs followed by nine copies of the
\* second; the two calibration inputs on their own
Batches ==
    { <<a>> : a \in AsteroidInputs \cup {tunguska_params, chelyabinsk_params} }
    \cup { <<a, b>> : a, b \in AsteroidInputs }
    \cup { [k \in 1..(GpuBatchSize + 1) |-> IF k = 1 THEN a ELSE b] :
             a, b \in AsteroidInputs }

IpInit ==
    /\ asteroid_params_list \in Batches
    /\ device_available \in BOOLEAN
    /\ gpu_failing \in BOOLEAN
    /\ device_available \/ ~gpu_failing
    /\ ip_pc = "dispatch"
    /\ batch_results = <<>>
    /\ batch_error = "none"

\* lines 147-150: compute_batch_impacts chooses the backend
IpDispatch ==
    /\ ip_pc = "dispatch"
    /\ ip_pc' = IF device_available /\ Len(asteroid_params_list) > GpuBatchSize
                THEN "gpu" ELSE "cpu"
    /\ UNCHANGED <<not_ip_vars, asteroid_params_list, device_available,
                   gpu_failing, batch_results, batch_error>>

\* lines 155-156: one iteration of _compute_batch_cpu; an exception of
\* compute_impact_effects leaves the loop and the call
IpCpuStep ==
    /\ ip_pc = "cpu"
    /\ Len(batch_results) < Len(asteroid_params_list)
    /\ \E params \in {asteroid_params_list[Len(batch_results) + 1]} :
          IF Raises(params)
          THEN /\ batch_error' = "ZeroDivisionError"
               /\ ip_pc' = "raised"
               /\ UNCHANGED batch_results
          ELSE /\ batch_results' =
                     Append(batch_results,
                            compute_impact_effects(params, device_available))
               /\ UNCHANGED <<ip_pc, batch_error>>
    /\ UNCHANGED <<not_ip_vars, asteroid_params_list, device_available,
                   gpu_failing>>

\* line 157: return results
IpCpuReturn ==
    /\ ip_pc = "cpu"
    /\ Len(batch_results) = Len(asteroid_params_list)
    /\ ip_pc' = "done"
    /\ UNCHANGED <<not_ip_vars, asteroid_params_list, device_available,
                   gpu_failing, batch_results, batch_error>>

\* lines 165-205: the GPU computation succeeds
IpGpu ==
    /\ ip_pc = "gpu"
    /\ ~gpu_failing
    /\ batch_results' = [k \in 1..Len(asteroid_params_list) |->
                            GpuEffects(asteroid_params_list[k])]
    /\ ip_pc' = "done"
    /\ UNCHANGED <<not_ip_vars, asteroid_params_list, device_available,
                   gpu_failing, batch_error>>

\* lines 206-208: the GPU computation raises, _compute_batch_cpu takes over
IpGpuFallback ==
    /\ ip_pc = "gpu"
    /\ gpu_failing
    /\ ip_pc' = "cpu"
    /\ UNCHANGED <<not_ip_vars, asteroid_params_list, device_available,
                   gpu_failing, batch_results, batch_error>>

ImpactNext ==
    \/ IpDispatch
    \/ IpCpuStep
    \/ IpCpuReturn
    \/ IpGpu
    \/ IpGpuFallback

ImpactInit == McIdle /\ AeIdle /\ OmIdle /\ IpInit /\ GvIdle /\ ScIdle /\ KsIdle

ImpactSpec == ImpactInit /\ [][ImpactNext]_vars

-----------------------------------------------------------------------------
(* Properties of EnhancedPhysicsEngine *)

\* AsteroidParameters (models/asteroid.py): diameter > 0, 0 < velocity <= 100,
\* density > 0, 0 <= angle <= 90
Validated(params) ==
    /\ params.diameter.s > 0
    /\ params.velocity.s > 0
    /\ FLessEq(params.velocity, FromInt(100, DoubleBits))
    /\ params.density.s > 0
    /\ params.angle >= 0
    /\ params.angle <= 90

\* C14: compute_impact_effects returns a result and does not raise for every
\* input in the validated range, the entry angle 0 included.
C14_NeverRaises ==
    (\A k \in 1..Len(asteroid_params_list) : Validated(asteroid_params_list[k]))
        => batch_error = "none"

\* C15: compute_batch_impacts returns one result per input, in input order,
\* and each result has the fields and values that compute_impact_effects
\* returns for that input alone, on the CPU path, on the GPU path and on the
\* GPU path that falls back to the CPU.
C15_BatchEqualsSingle ==
    ip_pc = "done" =>
        /\ Len(batch_results) = Len(asteroid_params_list)
        /\ \A k \in 1..Len(batch_results) :
              /\ ~Raises(asteroid_params_list[k])
              /\ batch_results[k]
                   = compute_impact_effects(asteroid_params_list[k],
                                            device_available)

\* C16: every seismic_magnitude, of compute_impact_effects and of a batch on
\* either backend, lies in [0, 12] and is 0 when the energy in ergs is <= 0.
C16_MagnitudeRange ==
    \A k \in 1..Len(batch_results) :
        /\ batch_results[k].seismic_magnitude \in 0..MagnitudeCap
        /\ batch_results[k].seismic_energy_ergs.s <= 0
              => batch_results[k].seismic_magnitude = 0

\* results i and j are results of compute_impact_effects for a positive
\* density and differ in that input j has the larger velocity or the larger
\* diameter, everything else being equal
Increased(i, j) ==
    LET a == asteroid_params_list[i]
        b == asteroid_params_list[j]
    IN  /\ "mass_kg" \in DOMAIN batch_results[i]
        /\ "mass_kg" \in DOMAIN batch_results[j]
        /\ a.density = b.density
        /\ a.density.s > 0
        /\ a.angle = b.angle
        /\ \/ a.diameter = b.diameter /\ FLess(a.velocity, b.velocity)
           \/ a.velocity = b.velocity /\ FLess(a.diameter, b.diameter)

\* C17 as claimed: kinetic_energy_joules and energy_mt_tnt are strictly
\* increasing in velocity and in diameter.
C17_StrictlyIncreasing ==
    \A i, j \in 1..Len(batch_results) :
        Increased(i, j) =>
            /\ FLess(batch_results[i].kinetic_energy_joules,
                     batch_results[j].kinetic_energy_joules)
            /\ FLess(batch_results[i].energy_mt_tnt,
                     batch_results[j].energy_mt_tnt)

\* C17 as amended: for a positive density, kinetic_energy_joules and
\* energy_mt_tnt never decrease when the velocity or the diameter increases
\* and the other parameters stay the same.
C17_NonDecreasing ==
    \A i, j \in 1..Len(batch_results) :
        Increased(i, j) =>
            /\ FLessEq(batch_results[i].kinetic_energy_joules,
                       batch_results[j].kinetic_energy_joules)
            /\ FLessEq(batch_results[i].energy_mt_tnt,
                       batch_results[j].energy_mt_tnt)

\* two results for velocities that are neighbouring floats: the energies are
\* equal
C17_Witness ==
    \E i, j \in 1..Len(batch_results) :
        /\ Increased(i, j)
        /\ asteroid_params_list[i].diameter = asteroid_params_list[j].diameter
        /\ batch_results[i].kinetic_energy_joules
             = batch_results[j].kinetic_energy_joules
        /\ batch_results[i].kinetic_energy_joules.s > 0


\* low < x < high, as the validation routes test it
Between(low, x, high) == FLess(low, x) /\ FLess(x, high)
EnergyOf(params) ==
    { batch_results[k].energy_mt_tnt :
        k \in { n \in 1..Len(batch_results) : asteroid_params_list[n] = params } }

\* C24: the energy computed for the Tunguska input lies between 8 and 20 MT
\* and the energy computed for the Chelyabinsk input between 0.3 and 0.7 MT.
C24_CalibratedEnergy ==
    /\ \A mt \in EnergyOf(tunguska_params) :
          Between(FromInt(8, DoubleBits), mt, FromInt(20, DoubleBits))
    /\ \A mt \in EnergyOf(chelyabinsk_params) :
          Between(Literal(3, -1, DoubleBits), mt, Literal(7, -1, DoubleBits))

\* the effects of the Chelyabinsk input have been computed
C24_Witness ==
    /\ ip_pc = "done"
    /\ asteroid_params_list = <<chelyabinsk_params>>
    /\ EnergyOf(chelyabinsk_params) # {}

-----------------------------------------------------------------------------
(* OrbitalMechanics.generate_trajectory_visualization as a state machine.   *)
(* x, y, z and the distances of a point are in kilometres.                  *)

MinFullOrbitPoints == 360         \* max(360, num_points)
CollisionBuffer == 100            \* Earth radius + 100 km
collision_threshold == EARTH_RADIUS + CollisionBuffer
earth_pos_estimate == <<AU_TO_KM, 0, 0>>      \* (1, 0, 0) AU

\* circular at 1 AU starting opposite to (1, 0, 0) AU, circular at 1 AU
\* starting at (1, 0, 0) AU, and an orbit that crosses 1 AU between samples
VisualOrbits ==
    { Elements(ElemUnit, 0, 0, 0, Deg(180), 0),
      Elements(ElemUnit, 0, 0, 0, 0, 0),
      Elements(120000, 20000, Deg(10), Deg(30), Deg(40), 0) }
PointCounts == {0, 4, 361}

\* lines 424-427
TotalPointsIgnoreRequest(num_points, full_orbit) ==
    IF full_orbit THEN MinFullOrbitPoints ELSE num_points
TotalPoints(num_points, full_orbit) ==
    IF full_orbit THEN Max(MinFullOrbitPoints, num_points) ELSE num_points

GvInit ==
    /\ \E el \in VisualOrbits, n \in PointCounts, check, full \in BOOLEAN :
          /\ gv_args = [orbital_elements |-> el, num_points |-> n,
                        check_collision |-> check, full_orbit |-> full]
          /\ gv = [pc |-> "loop", i |-> 0,
                   total_points |-> TotalPoints(n, full),
                   collision_detected |-> FALSE, collision_point |-> None]
    /\ trajectory_points = <<>>

\* lines 452-457: |distance_from_sun - 1 AU| < collision_threshold
InEarthOrbitZone(position) ==
    Abs(np_linalg_norm(position) - AU_TO_KM) < collision_threshold
\* lines 465-468: the 3-D distance to the Earth estimate
NearEarthEstimate(position) ==
    np_linalg_norm([k \in 1..3 |-> position[k] - earth_pos_estimate[k]])
        < collision_threshold

\* lines 437-485: one iteration of the loop, the break included
GvStep ==
    /\ gv.pc = "loop"
    /\ gv.i < gv.total_points
    /\ \E mean_anomaly \in {Scale(Deg(360), gv.i, gv.total_points) % Deg(360)} :
       \E position \in
            {keplerian_to_cartesian(
                 [gv_args.orbital_elements EXCEPT
                     !.mean_anomaly_deg = mean_anomaly]).position} :
       \E collided \in {gv_args.check_collision /\ InEarthOrbitZone(position)
                            /\ NearEarthEstimate(position)} :
          /\ trajectory_points' =
                Append(trajectory_points,
                       [x |-> position[1], y |-> position[2], z |-> position[3],
                        index |-> gv.i,
                        mean_anomaly_deg |-> mean_anomaly,
                        distance_from_sun_au |-> np_linalg_norm(position),
                        is_collision_zone |->
                            IF gv_args.check_collision
                            THEN InEarthOrbitZone(position) ELSE FALSE])
          /\ gv' = IF collided
                   THEN [gv EXCEPT !.collision_detected = TRUE,
                                   !.collision_point = gv.i,
                                   !.pc = "meta"]
                   ELSE [gv EXCEPT !.i = @ + 1]
    /\ UNCHANGED <<not_gv_vars, gv_args>>

\* lines 487-500: the metadata is attached to the first point
GvReturn ==
    /\ \/ gv.pc = "meta"
       \/ gv.pc = "loop" /\ gv.i >= gv.total_points
    /\ trajectory_points' =
          IF trajectory_points = <<>> THEN trajectory_points
          ELSE [trajectory_points EXCEPT
                  ![1] = @ @@ [trajectory_metadata |->
                      [collision_detected |-> gv.collision_detected,
                       collision_point_index |-> gv.collision_point,
                       total_points |-> Len(trajectory_points),
                       orbital_period_years |->
                           Mul(gv_args.orbital_elements.semi_major_axis_au
                                   * (One \div ElemUnit),
                               np_sqrt(gv_args.orbital_elements.semi_major_axis_au
                                           * (One \div ElemUnit))),
                       full_orbit_calculated |->
                           ~gv.collision_detected \/ ~gv_args.check_collision]]]
    /\ gv' = [gv EXCEPT !.pc = "done"]
    /\ UNCHANGED <<not_gv_vars, gv_args>>

VisualNext ==
    \/ GvStep
    \/ GvReturn

VisualInit == McIdle /\ AeIdle /\ OmIdle /\ IpIdle /\ GvInit /\ ScIdle /\ KsIdle

VisualSpec == VisualInit /\ [][VisualNext]_vars

-----------------------------------------------------------------------------
(* Properties of generate_trajectory_visualization *)

PointPosition(pt) == <<pt.x, pt.y, pt.z>>
\* the point passes both collision tests of lines 461 and 468
Collides(pt) ==
    InEarthOrbitZone(PointPosition(pt)) /\ NearEarthEstimate(PointPosition(pt))
Requested ==
    IF gv_args.full_orbit THEN Max(MinFullOrbitPoints, gv_args.num_points)
    ELSE gv_args.num_points

\* C18: the returned points have the indices 0, 1, ... and the mean
\* anomalies 360 * index / n, where n is max(360, num_points) with full_orbit
\* and num_points without; there are exactly n of them, unless check_collision
\* is set and a point collides: then the list ends with the first such point.
C18_RequestedPoints ==
    gv.pc = "done" =>
        /\ \A k \in 1..Len(trajectory_points) :
              /\ trajectory_points[k].index = k - 1
              /\ trajectory_points[k].mean_anomaly_deg
                   = Scale(Deg(360), k - 1, Requested)
        /\ \/ Len(trajectory_points) = Requested
           \/ /\ gv_args.check_collision
              /\ trajectory_points # <<>>
              /\ Len(trajectory_points) < Requested
              /\ Collides(trajectory_points[Len(trajectory_points)])
        /\ gv_args.check_collision =>
              \A k \in 1..(Len(trajectory_points) - 1) :
                  ~Collides(trajectory_points[k])
        /\ ~gv_args.check_collision => Len(trajectory_points) = Requested

\* a collision was found after more than one point and before the last
\* requested point
C18_Witness ==
    /\ gv.pc = "done"
    /\ gv_args.check_collision
    /\ Len(trajectory_points) > 1
    /\ Len(trajectory_points) < Requested
    /\ gv.collision_point = Len(trajectory_points) - 1

\* C19: a point is flagged is_collision_zone only if it passes both tests,
\* the radial one and the 3-D distance to (1, 0, 0) AU; hence with
\* check_collision no point other than the last one is flagged.
C19_FlagMeansCollision ==
    \A k \in 1..Len(trajectory_points) :
        trajectory_points[k].is_collision_zone
            => /\ Collides(trajectory_points[k])
               /\ gv.pc = "done" => k = Len(trajectory_points)

-----------------------------------------------------------------------------
(* calculate_impact_scenario (orbital_mechanics.py) called on its own.  What *)
(* find_earth_intercept and the two random.uniform calls return is part of  *)
(* the input; of calculate_atmospheric_entry the arguments of the call are  *)
(* recorded.                                                                *)

ScenarioParams ==
    { [diameter |-> 50, velocity |-> vel, density |-> 2500, angle |-> ang] :
        vel \in {1, 20}, ang \in {0, 45} }
\* no target, New York City, a latitude only, a longitude only
TargetLocations ==
    { NoTarget,
      [given |-> TRUE, latitude |-> 4071280, longitude |-> -7400600],
      [given |-> TRUE, latitude |-> 0, longitude |-> None],
      [given |-> TRUE, latitude |-> None, longitude |-> Deg(10)] }

ScInit ==
    /\ sc_args \in [asteroid_params : ScenarioParams,
                    has_elements : BOOLEAN,
                    found_intercept : InterceptResults,
                    target_location : TargetLocations,
                    random_location : RandomLocations]
    /\ sc_pc = "call"
    /\ sc_result = NoResult

\* lines 565-652
ScCall ==
    /\ sc_pc = "call"
    /\ sc_result' = calculate_impact_scenario(sc_args.asteroid_params,
                                              sc_args.has_elements,
                                              sc_args.found_intercept,
                                              sc_args.target_location,
                                              sc_args.random_location)
    /\ sc_pc' = "done"
    /\ UNCHANGED <<not_sc_vars, sc_args>>

ScenarioNext == ScCall

ScenarioInit == McIdle /\ AeIdle /\ OmIdle /\ IpIdle /\ GvIdle /\ ScInit /\ KsIdle

ScenarioSpec == ScenarioInit /\ [][ScenarioNext]_vars

-----------------------------------------------------------------------------
(* Properties of calculate_impact_scenario *)

NoInterceptFound == ~sc_args.has_elements \/ ~sc_args.found_intercept.found
FullTarget ==
    /\ sc_args.target_location.given
    /\ sc_args.target_location.latitude # None
    /\ sc_args.target_location.longitude # None

\* C20: when no intercept is found or no orbital elements are given, the
\* scenario is returned, the velocity and angle handed to the atmospheric
\* entry and reported as effective parameters are the caller's, the
\* orbital_intercept is None, and a target with both latitude and longitude is
\* reported as the impact location.
C20_FallbackWithoutIntercept ==
    (sc_pc = "done" /\ NoInterceptFound) =>
        /\ sc_result.atmospheric_entry.called_with.initial_velocity_km_s
             = sc_args.asteroid_params.velocity
        /\ sc_result.atmospheric_entry.called_with.entry_angle_deg
             = sc_args.asteroid_params.angle
        /\ sc_result.effective_parameters.entry_velocity_km_s
             = sc_args.asteroid_params.velocity
        /\ sc_result.effective_parameters.entry_angle_deg
             = sc_args.asteroid_params.angle
        /\ ~sc_result.orbital_intercept.found
        /\ FullTarget =>
              /\ sc_result.impact_location.latitude
                   = sc_args.target_location.latitude
              /\ sc_result.impact_location.longitude
                   = sc_args.target_location.longitude

\* orbital elements were given, the search found nothing, and the caller
\* named a target with both coordinates
C20_Witness ==
    /\ sc_pc = "done"
    /\ sc_args.has_elements
    /\ ~sc_args.found_intercept.found
    /\ FullTarget
    /\ sc_result.impact_location.latitude = 4071280

\* C27: a target location with both latitude and longitude is reported as
\* the impact location, also when orbital elements are supplied and an
\* intercept is found.
C27_TargetOverrides ==
    (sc_pc = "done" /\ FullTarget) =>
        /\ sc_result.impact_location.latitude
             = sc_args.target_location.latitude
        /\ sc_result.impact_location.longitude
             = sc_args.target_location.longitude

-----------------------------------------------------------------------------
(* Part VII: OrbitalMechanics._solve_keplers_equation as a state machine    *)
(* (orbital_mechanics.py, lines 120-138).  Angles are in units of 1e-8      *)
(* radian, so the default tolerance 1e-8 is one unit.                       *)

Tolerance == 1                    \* tolerance: float = 1e-8
ZeroDivisionError == [raised |-> TRUE, E_new |-> None]

\* lines 128-131: f, f_prime and E_new = E - f / f_prime; the division raises
\* ZeroDivisionError when f_prime is 0.0
NewtonStep(M, e, E) ==
    LET f == E - Mul(e, np_sin(E)) - M
        f_prime == One - Mul(e, np_cos(E))
    IN  IF f_prime = 0 THEN ZeroDivisionError
        ELSE [raised |-> FALSE, E_new |-> E - Div(f, f_prime)]

\* line 133: if abs(E_new - E) < tolerance
WithinToleranceNever(step) == FALSE
WithinTolerance(step) == step < Tolerance

KeplerStride == 10
\* mean anomalies 0, 10, ..., 360 degrees, and two at which the estimate
\* keeps moving by one unit at eccentricity 0.25 (in floating point this
\* happens where the spacing of the doubles around E exceeds the tolerance)
KeplerAnomalies ==
    { KeplerStride * k : k \in 0..(360 \div KeplerStride) } \cup {74, 286}
KeplerEccentricities == {0, 20000, 25000, 50000}
\* (M, e) in model units; e = 1 - 1e-8 is the largest eccentricity of the
\* domain 0 <= e < 1 in these units, e = 1.0 is outside it
KeplerInputs ==
    { <<np_radians(Deg(deg)), ecc * (One \div ElemUnit)>> :
          deg \in KeplerAnomalies, ecc \in KeplerEccentricities }
    \cup { <<0, One - 1>>, <<0, One>> }

\* line 125: E = M
KsInit ==
    \E input \in KeplerInputs :
       ks = [pc |-> "loop", M |-> input[1], e |-> input[2], E |-> input[1],
             iterations |-> 0, steps |-> <<>>, returned |-> None]

\* lines 127-136: one iteration of the loop
KsIterate ==
    /\ ks.pc = "loop"
    /\ ks.iterations < KeplerIterations
    /\ \E next \in {NewtonStep(ks.M, ks.e, ks.E)} :
          /\ ~next.raised
          /\ ks' = IF WithinTolerance(Abs(next.E_new - ks.E))
                   THEN [ks EXCEPT !.pc = "done",
                                   !.iterations = @ + 1,
                                   !.steps = Append(@, Abs(next.E_new - ks.E)),
                                   !.returned = next.E_new]
                   ELSE [ks EXCEPT !.E = next.E_new,
                                   !.iterations = @ + 1,
                                   !.steps = Append(@, Abs(next.E_new - ks.E))]
    /\ UNCHANGED not_ks_vars

\* line 131: the division by f_prime = 0.0 raises
KsDivideByZero ==
    /\ ks.pc = "loop"
    /\ ks.iterations < KeplerIterations
    /\ NewtonStep(ks.M, ks.e, ks.E).raised
    /\ ks' = [ks EXCEPT !.pc = "raised"]
    /\ UNCHANGED not_ks_vars

\* line 138: the loop is over, return E
KsExhausted ==
    /\ ks.pc = "loop"
    /\ ks.iterations = KeplerIterations
    /\ ks' = [ks EXCEPT !.pc = "done", !.returned = ks.E]
    /\ UNCHANGED not_ks_vars

KeplerNext ==
    \/ KsIterate
    \/ KsDivideByZero
    \/ KsExhausted

KeplerInit == McIdle /\ AeIdle /\ OmIdle /\ IpIdle /\ GvIdle /\ ScIdle /\ KsInit

KeplerSpec == KeplerInit /\ [][KeplerNext]_vars

-----------------------------------------------------------------------------
(* Properties of _solve_keplers_equation *)

InDomain == 0 <= ks.e /\ ks.e < One
LastStep == ks.steps[Len(ks.steps)]

\* C21: for 0 <= e < 1 the solver never raises and takes at most 100
\* iterations; a step below the tolerance is the last one and E_new is
\* returned at once; when the 100 iterations are used up without such a
\* step, the last estimate E is returned.
C21_ReturnsWithinBudget ==
    InDomain =>
        /\ ks.pc # "raised"
        /\ ks.iterations <= KeplerIterations
        /\ Len(ks.steps) = ks.iterations
        /\ \A k \in 1..Len(ks.steps) :
              ks.steps[k] < Tolerance =>
                  /\ k = Len(ks.steps)
                  /\ ks.pc = "done"
                  /\ Abs(ks.returned - ks.E) = ks.steps[k]
        /\ ks.pc = "done" =>
              \/ LastStep < Tolerance
              \/ ks.iterations = KeplerIterations /\ ks.returned = ks.E

\* the budget was used up without a step below the tolerance, and the last
\* estimate was returned
C21_Witness ==
    /\ InDomain
    /\ ks.pc = "done"
    /\ ks.iterations = KeplerIterations
    /\ LastStep >= Tolerance
    /\ ks.returned = ks.E

====
